---- MODULE Spec2Model ----
(***************************************************************************)
(* A model of the ESP8266 UART driver                                      *)
(* (Sming/Arch/Esp8266/Components/driver/uart.cpp).                        *)
(*                                                                         *)
(* The mainline (application) context runs one API call at a time; calls   *)
(* whose interleaving with the interrupt handler matters (smg_uart_write,  *)
(* smg_uart_read) are split into steps at every buffer or register access. *)
(* The interrupt service routine runs to completion and is one action,     *)
(* enabled between any two mainline steps while the UART interrupt is      *)
(* unmasked.  The hardware (FIFOs, raw interrupt flags) moves on its own.  *)
(*                                                                         *)
(* Every operation of the driver is a function from a machine state (a     *)
(* record with one field per variable) to a machine state, so that an      *)
(* operation that calls another (smg_uart_init_ex calls smg_uart_flush)    *)
(* is the composition the code makes.                                      *)
(***************************************************************************)
EXTENDS Integers, Sequences, FiniteSets, TLC

VARIABLES
    uartInstances,  \* uartInstances[nr]: "null", or "ptr" (a pointer to uart[nr])
    uart,           \* the smg_uart_t object allocated for each port id
    isrMask,        \* set of port ids whose bit is set in isrMask
    intrEnabled,    \* ETS_UART_INTR_ENABLE / DISABLE state of the CPU
    int_ena,        \* UART_INT_ENA(nr): set of enabled interrupt sources
    int_raw,        \* UART_INT_RAW(nr): set of latched interrupt conditions
    conf1,          \* UART_CONF1(nr): thresholds
    rxfifo,         \* hardware receive FIFO of each physical port (bytes)
    txcnt,          \* number of bytes in the hardware transmit FIFO
    clkdiv,         \* UART_CLKDIV(nr)
    swap0,          \* UART_SWAP0 bit of UART_SWAP_REG
    pinfunc,        \* function selected for each GPIO pin
    pc,             \* position of the mainline context inside an API call
    op,             \* locals of the API call in progress
    ret,            \* the last API call that returned, and its result
    env,            \* hardware depths and workload limits, fixed at Init
    fifoIn,         \* history: bytes pushed into the transmit FIFO of UART0
    nAccepted,      \* history: number of bytes accepted by smg_uart_write
    rxSeq,          \* history: number of bytes that arrived on the wire
    isrLog,         \* history: what the last handler run did
    lastMut,        \* history: the last buffer mutation and its context
    pinLog,         \* history: the last two pin operations with their pre-state
    ovfSince,       \* history: a hardware overflow occurred since the last status read
    statusLog,      \* history: the last two status reads
    heap,           \* number of SerialBuffer objects allocated and not deleted
    baudLog,        \* history: the last two baud-rate calls
    readLog         \* history: the bytes smg_uart_read returned, in order

vars == <<uartInstances, uart, isrMask, intrEnabled, int_ena, int_raw, conf1,
          rxfifo, txcnt, clkdiv, swap0, pinfunc, pc, op, ret, env, fifoIn, nAccepted,
          rxSeq, isrLog, lastMut, pinLog, ovfSince, statusLog, heap, baudLog,
          readLog>>

(***************************************************************************)
(* Port identifiers and enumerations (driver/uart.h)                       *)
(***************************************************************************)
UART0 == 0
UART1 == 1
UART2 == 2
UART_COUNT == 3
UART_PHYSICAL_COUNT == 2
UART_PIN_DEFAULT == 255
\* smg_uart_get_uart() == nullptr: no port number
UART_NO == -1

Ports == 0 .. (UART_COUNT - 1)
Physical == 0 .. (UART_PHYSICAL_COUNT - 1)

Modes == {"UART_FULL", "UART_RX_ONLY", "UART_TX_ONLY"}

\* Interrupt sources / status bits (espinc/uart_register.h)
RxEvents == {"FULL", "TOUT", "OVF"}
ErrFlags == {"BRK", "OVF", "FRM", "PAR"}
AllFlags == {"FULL", "TXE", "PAR", "FRM", "OVF", "BRK", "TOUT"}

Pins == {1, 2, 3, 13, 15}

\* Faulty variant: the first operand whatever the second
Min_First(a, b) == a

Min(a, b) == IF a <= b THEN a ELSE b

\* size_t arithmetic is modulo 2^32.  A size_t value is represented by the
\* residue in -2^31 .. 2^31-1 that is congruent to it (TLC integers are 32 bit
\* wide): -1 stands for 0xFFFFFFFF.  Only equality with 0 is taken of a wrapped
\* value, and the representation is exact for it.
SizeT(x) == x

(***************************************************************************)
(* Receive thresholds (uart.cpp lines 63-70).  The hardware FIFO is 128    *)
(* deep; the model's FIFO is env.rxFifoSize deep and the threshold         *)
(* programmed into the hardware is scaled in proportion.                   *)
(***************************************************************************)
RX_FIFO_FULL_THRESHOLD == 120
HW_RX_FIFO_SIZE == 128
RX_FIFO_HEADROOM == HW_RX_FIFO_SIZE - RX_FIFO_FULL_THRESHOLD
DEFAULT_RX_HEADROOM == 32 - RX_FIFO_HEADROOM

ScaledThreshold(s, thr) == (thr * s.env.rxFifoSize) \div HW_RX_FIFO_SIZE

(***************************************************************************)
(* Circular byte buffer (SerialBuffer): a bounded queue.  cap = 0 stands   *)
(* for "no buffer" (a null pointer).                                       *)
(***************************************************************************)
NoBuf == [cap |-> 0, data |-> <<>>]
NewBuf(n) == [cap |-> n, data |-> <<>>]
HasBuf(b) == b.cap > 0
available(b) == Len(b.data)
getFreeSpace(b) == b.cap - Len(b.data)
isEmpty(b) == Len(b.data) = 0
BufFull(b) == Len(b.data) >= b.cap
writeChar(b, c) == [b EXCEPT !.data = Append(@, c)]
readChar(b) == [b EXCEPT !.data = Tail(@)]
clear(b) == [b EXCEPT !.data = <<>>]

(***************************************************************************)
(* The smg_uart_t object.  st: "none" (never allocated), "live", "freed".  *)
(***************************************************************************)
NoUart ==
    [st |-> "none", mode |-> "UART_FULL", options |-> {}, baud_rate |-> 0,
     tx_pin |-> UART_PIN_DEFAULT, rx_pin |-> UART_PIN_DEFAULT,
     rx_headroom |-> 0, status |-> {}, rx_buffer |-> NoBuf, tx_buffer |-> NoBuf,
     callback |-> FALSE, fn |-> 0, param |-> 0]

FreedUart == [NoUart EXCEPT !.st = "freed"]

NoConf1 == [rxfifo_full_thrhd |-> 0, rx_tout_thrhd |-> 0, rx_tout_en |-> FALSE,
            txfifo_empty_thrhd |-> 0]

NoOp == [kind |-> "none", nr |-> 0, size |-> 0, written |-> 0, base |-> 0,
         R |-> 0, B |-> 0, quiet |-> TRUE, bufEmpty |-> TRUE,
         mode |-> "none", rxOk |-> TRUE, txOk |-> TRUE, fn |-> 0, param |-> 0,
         rxfifo_full_thresh |-> 0, rx_timeout_thresh |-> 0,
         txfifo_empty_intr_thresh |-> 0]

NoRet == [op |-> "none", nr |-> 0, val |-> 0, tick |-> 0, call |-> NoOp]

NoIsrLog == [nr |-> UART_NO, usis |-> {}, status |-> {}, called |-> FALSE,
             drained |-> 0, space |-> 0, cap |-> 0, headroom |-> 0,
             callback |-> FALSE, raw |-> FALSE, avail |-> 0, free |-> 0,
             ena |-> {}, txCap |-> 0, txAvail |-> 0, txFree |-> 0,
             count |-> 0, txcnt |-> 0, txLeft |-> 0, sticky |-> {},
             serviced |-> FALSE, fn |-> 0, param |-> 0, at |-> "idle"]

\* base: the arrivals before the port was opened (the open flushes them);
\* out: the bytes returned since; lost: a byte was dropped by the full FIFO
NoReadLog == [base |-> 0, out |-> <<>>, lost |-> FALSE]

NoMut == [ctx |-> "none", buf |-> "none", kind |-> "none", masked |-> TRUE]

\* The machine state as a record
S == [uartInstances |-> uartInstances, uart |-> uart, isrMask |-> isrMask,
      intrEnabled |-> intrEnabled, int_ena |-> int_ena, int_raw |-> int_raw,
      conf1 |-> conf1, rxfifo |-> rxfifo, txcnt |-> txcnt, clkdiv |-> clkdiv,
      swap0 |-> swap0,
      pinfunc |-> pinfunc, pc |-> pc, op |-> op, ret |-> ret, env |-> env,
      fifoIn |-> fifoIn, nAccepted |-> nAccepted, rxSeq |-> rxSeq,
      isrLog |-> isrLog, lastMut |-> lastMut, pinLog |-> pinLog,
      ovfSince |-> ovfSince, statusLog |-> statusLog,
      heap |-> heap, baudLog |-> baudLog,
      readLog |-> readLog]

Commit(t) ==
    /\ uartInstances' = t.uartInstances
    /\ uart' = t.uart
    /\ isrMask' = t.isrMask
    /\ intrEnabled' = t.intrEnabled
    /\ int_ena' = t.int_ena
    /\ int_raw' = t.int_raw
    /\ conf1' = t.conf1
    /\ rxfifo' = t.rxfifo
    /\ txcnt' = t.txcnt
    /\ clkdiv' = t.clkdiv
    /\ swap0' = t.swap0
    /\ pinfunc' = t.pinfunc
    /\ pc' = t.pc
    /\ op' = t.op
    /\ ret' = t.ret
    /\ env' = t.env
    /\ fifoIn' = t.fifoIn
    /\ nAccepted' = t.nAccepted
    /\ rxSeq' = t.rxSeq
    /\ isrLog' = t.isrLog
    /\ lastMut' = t.lastMut
    /\ pinLog' = t.pinLog
    /\ ovfSince' = t.ovfSince
    /\ statusLog' = t.statusLog
    /\ heap' = t.heap
    /\ baudLog' = t.baudLog
    /\ readLog' = t.readLog

\* The history variables a specification keeps (env.hist) are the ones its
\* properties read: "tick" (ret.tick flips at every return), "call" (ret.call
\* holds the locals of the call), "isr" (isrLog), "mut" (lastMut), "pins"
\* (pinLog), "fifo" (fifoIn), "status" (statusLog), "baud" (baudLog),
\* "out" (readLog)
Keeps(s, h) == h \in s.env.hist

\* An API call returns: record it
Return(s, name, nr, val) ==
    [s EXCEPT !.pc = "idle",
              !.ret = [op |-> name, nr |-> nr, val |-> val,
                       tick |-> IF Keeps(s, "tick") THEN 1 - s.ret.tick ELSE 0,
                       call |-> IF Keeps(s, "call") THEN s.op ELSE NoOp],
              !.op = NoOp]

(***************************************************************************)
(* Small helpers of uart.cpp and driver/uart.h                             *)
(***************************************************************************)
uart_rxfifo_count(s, nr) == Len(s.rxfifo[nr])
uart_txfifo_count(s, nr) == s.txcnt[nr]
uart_txfifo_free(s, nr) == s.env.txFifoSize - uart_txfifo_count(s, nr) - 1
\* Faulty variant: the FIFO counts as full one byte later
uart_txfifo_full_OneLate(s, nr) == uart_txfifo_count(s, nr) >= s.env.txFifoSize

uart_txfifo_full(s, nr) == uart_txfifo_count(s, nr) >= s.env.txFifoSize - 1

\* Faulty variant: every port counts as armed
uart_isr_enabled_Always(s, nr) == TRUE

uart_isr_enabled(s, nr) == nr \in s.isrMask

is_physical(nr) == (nr >= 0) /\ (nr < UART_PHYSICAL_COUNT)

\* The port number of the physical uart behind nr, UART_NO for a null pointer
get_physical(s, nr) ==
    IF nr = UART2
    THEN (IF s.uartInstances[UART0] = "null" THEN UART_NO ELSE UART0)
    ELSE nr

\* Faulty variant: the registry lookup finds nothing
smg_uart_get_uart_NoLookup(s, nr) == "null"

smg_uart_get_uart(s, nr) ==
    IF nr < UART_COUNT THEN s.uartInstances[nr] ELSE "null"

smg_uart_rx_enabled(u) == u.mode # "UART_TX_ONLY"
smg_uart_tx_enabled(u) == u.mode # "UART_RX_ONLY"

smg_uart_disable_interrupts(s) == [s EXCEPT !.intrEnabled = FALSE]

\* Faulty variant: the UART interrupt stays masked
smg_uart_restore_interrupts_Never(s) == s

smg_uart_restore_interrupts(s) ==
    IF s.isrMask # {} THEN [s EXCEPT !.intrEnabled = TRUE] ELSE s

\* A buffer mutation by the mainline context: remember how it was made
MainMut(s, b, k) ==
    IF Keeps(s, "mut")
    THEN [s EXCEPT !.lastMut = [ctx |-> "main", buf |-> b, kind |-> k,
                                masked |-> ~s.intrEnabled]]
    ELSE s

(***************************************************************************)
(* Pin multiplexer                                                         *)
(***************************************************************************)
uart0_pin_select(s, pin) ==
    IF pin \in {1, 2, 3, 13, 15} THEN [s EXCEPT !.pinfunc[pin] = "UART0"] ELSE s

uart0_pin_restore(s, pin) ==
    IF pin \in {1, 2, 3, 13, 15} THEN [s EXCEPT !.pinfunc[pin] = "GPIO"] ELSE s

uart1_pin_select(s, pin) ==
    IF pin = 2 THEN [s EXCEPT !.pinfunc[pin] = "UART1"] ELSE s

uart1_pin_restore(s, pin) ==
    IF pin = 2 THEN [s EXCEPT !.pinfunc[pin] = "GPIO"] ELSE s

(***************************************************************************)
(* Interrupt attach / detach                                               *)
(***************************************************************************)
smg_uart_detach(s, nr) ==
    IF ~is_physical(nr) THEN s
    ELSE LET s1 == smg_uart_disable_interrupts(s)
             s2 == [s1 EXCEPT !.isrMask = @ \ {nr},
                              !.conf1[nr] = NoConf1,
                              !.int_raw[nr] = {},
                              !.int_ena[nr] = {}]
         IN smg_uart_restore_interrupts(s2)

smg_uart_detach_all(s) ==
    LET s1 == smg_uart_disable_interrupts(s)
    IN [s1 EXCEPT !.conf1 = [n \in Physical |-> NoConf1],
                  !.int_raw = [n \in Physical |-> {}],
                  !.int_ena = [n \in Physical |-> {}],
                  !.isrMask = {}]

\* driver/uart.h: disarm the interrupts of a port
smg_uart_stop_isr(s, nr) == smg_uart_detach(s, nr)

smg_uart_start_isr(s, nr) ==
    IF ~is_physical(nr) THEN s
    ELSE LET u == s.uart[nr]
             rx == smg_uart_rx_enabled(u)
             c1 == IF rx
                   THEN [rxfifo_full_thrhd |-> ScaledThreshold(s, RX_FIFO_FULL_THRESHOLD),
                         rx_tout_thrhd |-> 2, rx_tout_en |-> TRUE,
                         txfifo_empty_thrhd |-> 0]
                   ELSE NoConf1
             intena == IF rx THEN {"FULL", "TOUT", "BRK", "OVF"} ELSE {}
             oldmask == s.isrMask
             s1 == [s EXCEPT !.conf1[nr] = c1,
                             !.int_raw[nr] = {},
                             !.int_ena[nr] = intena,
                             !.isrMask = @ \cup {nr}]
         IN IF oldmask = {} THEN [s1 EXCEPT !.intrEnabled = TRUE] ELSE s1

(***************************************************************************)
(* Flush                                                                   *)
(***************************************************************************)
smg_uart_flush(s, nr, mode) ==
    LET u == s.uart[nr]
        flushRx == mode # "UART_TX_ONLY" /\ u.mode # "UART_TX_ONLY"
        flushTx == mode # "UART_RX_ONLY" /\ u.mode # "UART_RX_ONLY"
        s1 == smg_uart_disable_interrupts(s)
        s2 == IF flushRx /\ HasBuf(u.rx_buffer)
              THEN MainMut([s1 EXCEPT !.uart[nr].rx_buffer = clear(@)], "rx", "clear")
              ELSE s1
        s3 == IF flushTx /\ HasBuf(u.tx_buffer)
              THEN MainMut([s2 EXCEPT !.uart[nr].tx_buffer = clear(@)], "tx", "clear")
              ELSE s2
        s4 == IF is_physical(nr)
              THEN [s3 EXCEPT
                      !.txcnt[nr] = IF flushTx THEN 0 ELSE @,
                      !.rxfifo[nr] = IF flushRx THEN <<>> ELSE @,
                      !.int_raw[nr] = IF flushRx THEN @ \cap {"TXE"} ELSE @,
                      !.int_ena[nr] = ((IF flushTx THEN @ \ {"TXE"} ELSE @)
                                       \cup (IF flushRx THEN {"FULL", "TOUT", "OVF"} ELSE {}))]
              ELSE s3
    IN smg_uart_restore_interrupts(s4)

(***************************************************************************)
(* Baud rate                                                               *)
(***************************************************************************)
UART_CLK_FREQ == 80000000

\* <<state, effective rate>>
smg_uart_set_baudrate_reg(s, nr, baud_rate) ==
    IF ~is_physical(nr) \/ baud_rate = 0 THEN <<s, 0>>
    ELSE LET div == UART_CLK_FREQ \div baud_rate
         IN <<[s EXCEPT !.clkdiv[nr] = div],
              IF div # 0 THEN UART_CLK_FREQ \div div ELSE 0>>

\* Faulty variant: the call reports the rate that was stored before it
smg_uart_set_baudrate_Stale(s, nr, baud_rate) ==
    LET phys == get_physical(s, nr)
    IN IF phys = UART_NO THEN <<s, 0>>
       ELSE LET r == smg_uart_set_baudrate_reg(s, phys, baud_rate)
            IN <<[r[1] EXCEPT !.uart[phys].baud_rate = r[2]], s.uart[phys].baud_rate>>

\* nr names the object the caller passes; the rate is stored in the physical uart
smg_uart_set_baudrate(s, nr, baud_rate) ==
    LET phys == get_physical(s, nr)
    IN IF phys = UART_NO THEN <<s, 0>>
       ELSE LET r == smg_uart_set_baudrate_reg(s, phys, baud_rate)
            IN <<[r[1] EXCEPT !.uart[phys].baud_rate = r[2]], r[2]>>

(***************************************************************************)
(* Open and close                                                          *)
(***************************************************************************)
\* smg_uart_realloc_buffer: size 0 asks for no buffer; ok = FALSE is an
\* allocation failure
smg_uart_realloc_buffer(size, ok) ==
    IF size = 0 THEN <<TRUE, NoBuf>>
    ELSE IF ok THEN <<TRUE, NewBuf(size)>> ELSE <<FALSE, NoBuf>>

\* delete of a SerialBuffer pointer: the number of objects it frees (none for
\* a null pointer)
DeleteBuf(b) == IF HasBuf(b) THEN 1 ELSE 0

\* Faulty variant: the receive buffer is kept when the transmit buffer fails
ReleaseOnTxFail_Leak(rxb) == 0

\* delete uart->rx_buffer when the transmit buffer cannot be allocated (line 687)
ReleaseOnTxFail(rxb) == DeleteBuf(rxb)

\* A workload may take the tail of smg_uart_init_ex one statement at a time,
\* so that the interrupt can run between the statements
SteppedOpen(s) == "steps" \in DOMAIN s.env /\ "init_ex" \in s.env.steps

\* Faulty variant: the interrupts are armed before the instance is installed
InitExOrder_ArmFirst == <<"o_arm", "o_install", "o_notify", "idle">>

\* The last three statements of smg_uart_init_ex in program order: install
\* in uartInstances (743), smg_uart_start_isr (744), notify (746)
InitExOrder == <<"o_install", "o_arm", "o_notify", "idle">>

\* The statement that follows statement p of the tail
InitExAfter(p) ==
    InitExOrder[1 + CHOOSE i \in 1..3 : InitExOrder[i] = p]

\* Lines 741-742: set the baud rate of the new object u and flush
InitExPrepare(s, nr, u, baudrate) ==
    LET s0 == [s EXCEPT !.uart[nr] = u]
        s1 == smg_uart_set_baudrate(s0, nr, baudrate)[1]
    IN smg_uart_flush(s1, nr, "UART_FULL")

\* Line 743
InitExInstall(s, nr) == [s EXCEPT !.uartInstances[nr] = "ptr"]

\* The tail of smg_uart_init_ex (lines 741-748), u the new object
InitExFinish(s, nr, u, baudrate) ==
    LET s2 == InitExPrepare(s, nr, u, baudrate)
    IN IF SteppedOpen(s) THEN s2
       ELSE smg_uart_start_isr(InitExInstall(s2, nr), nr)

\* <<state, result>>: result "ptr" (the new instance) or "null"
smg_uart_init_ex(s, cfg, rxOk, txOk) ==
    LET nr == cfg.uart_nr
        u0 == [NoUart EXCEPT !.st = "live", !.mode = cfg.mode,
                             !.options = cfg.options,
                             !.rx_headroom = DEFAULT_RX_HEADROOM]
        fail == <<s, "null">>
        Opened(n) == [s EXCEPT !.heap = @ + n]
    IN
    IF smg_uart_get_uart(s, nr) # "null" THEN fail
    ELSE IF nr \in {UART0, UART2} THEN
        LET rxSize == cfg.rx_size + (IF nr = UART2 THEN s.env.rxFifoSize ELSE 0)
            txSize == cfg.tx_size + (IF nr = UART2 THEN s.env.txFifoSize ELSE 0)
            rxb == IF smg_uart_rx_enabled(u0)
                   THEN smg_uart_realloc_buffer(rxSize, rxOk) ELSE <<TRUE, NoBuf>>
            txb == IF smg_uart_tx_enabled(u0)
                   THEN smg_uart_realloc_buffer(txSize, txOk) ELSE <<TRUE, NoBuf>>
            u1 == [u0 EXCEPT !.rx_buffer = rxb[2], !.tx_buffer = txb[2]]
            held == DeleteBuf(rxb[2]) + DeleteBuf(txb[2])
        IN IF ~rxb[1] THEN fail
           ELSE IF ~txb[1]
           THEN <<[s EXCEPT !.heap = (@ + DeleteBuf(rxb[2])) - ReleaseOnTxFail(rxb[2])],
                  "null">>
           ELSE IF nr = UART2
           THEN <<InitExFinish(Opened(held), nr, u1, cfg.baudrate), "ptr">>
           ELSE
             LET s1 == smg_uart_detach(Opened(held), nr)
                 u2 == IF smg_uart_rx_enabled(u1) THEN [u1 EXCEPT !.rx_pin = 3] ELSE u1
                 s2 == IF smg_uart_rx_enabled(u1) THEN uart0_pin_select(s1, 3) ELSE s1
                 txp == IF cfg.tx_pin = 2 THEN 2 ELSE 1
                 u3 == IF smg_uart_tx_enabled(u2) THEN [u2 EXCEPT !.tx_pin = txp] ELSE u2
                 s3 == IF smg_uart_tx_enabled(u2) THEN uart0_pin_select(s2, txp) ELSE s2
                 s4 == [s3 EXCEPT !.swap0 = FALSE]
             IN <<InitExFinish(s4, nr, u3, cfg.baudrate), "ptr">>
    ELSE IF nr = UART1 THEN
        IF cfg.mode = "UART_RX_ONLY" THEN fail
        ELSE
          LET u1 == [u0 EXCEPT !.mode = "UART_TX_ONLY"]
              txb == smg_uart_realloc_buffer(cfg.tx_size, txOk)
          IN IF ~txb[1] THEN fail
             ELSE LET s1 == smg_uart_detach(Opened(DeleteBuf(txb[2])), nr)
                      u2 == [u1 EXCEPT !.tx_buffer = txb[2], !.tx_pin = 2]
                      s2 == uart1_pin_select(s1, 2)
                  IN <<InitExFinish(s2, nr, u2, cfg.baudrate), "ptr">>
    ELSE fail

\* The caller holds a pointer to the live object uart[nr]
smg_uart_uninit(s, nr) ==
    LET u == s.uart[nr]
        s1 == smg_uart_stop_isr(s, nr)
        s2 == IF nr = UART0
              THEN uart0_pin_restore(uart0_pin_restore(s1, u.rx_pin), u.tx_pin)
              ELSE IF nr = UART1 THEN uart1_pin_restore(s1, u.tx_pin)
              ELSE s1
    IN [s2 EXCEPT !.uart[nr] = FreedUart,
                  !.heap = @ - (DeleteBuf(u.rx_buffer) + DeleteBuf(u.tx_buffer))]

(***************************************************************************)
(* The interrupt handler                                                   *)
(***************************************************************************)
\* The value of the local 'read' once the drain loop (lines 188-193) has run:
\* while(read-- != 0) leaves it at 0 - 1 in size_t arithmetic
ReadAfterDrain(n) == SizeT(n - (n + 1))

\* Faulty variant: suppress the callback also when the free space equals the headroom
SuppressRxFull_AtHeadroom(space, headroom) == space >= headroom

\* Faulty variant: the sticky status is overwritten
StickyStatus_Assign(old, status) == status

\* uart->status |= status, line 236
StickyStatus(old, status) == old \cup status

\* Faulty variant: the raw-callback option is ignored
RawCallback_Never(u) == FALSE

\* bitRead(uart->options, UART_OPT_CALLBACK_RAW), line 179
RawCallback(u) == "RAW" \in u.options

\* Faulty variant: the transmit FIFO is never taken to be empty
TxFifoRemainsEmpty_Never(cnt) == FALSE

\* If TX FIFO remains empty (line 225): uart_txfifo_count(uart_nr) == 0
TxFifoRemainsEmpty(cnt) == cnt = 0

\* Faulty variant: the overflow source is left enabled
MaskOverflow_Keep(ena) == ena

\* CLEAR_PERI_REG_MASK(UART_INT_ENA(uart_nr), UART_RXFIFO_OVF_INT_ENA), line 206
MaskOverflow(ena) == ena \ {"OVF"}

\* Don't call back until buffer is (almost) full (line 196)
SuppressRxFull(space, headroom) == space > headroom

handle_uart_interrupt(s, nr) ==
    LET usis == s.int_raw[nr] \cap s.int_ena[nr]
        u == s.uart[nr]
    IN
    IF usis = {} THEN s
    ELSE IF s.uartInstances[nr] = "null" \/ ~uart_isr_enabled(s, nr)
    THEN [s EXCEPT !.int_ena[nr] = {},
                   !.isrLog = IF Keeps(s, "isr")
                              THEN [NoIsrLog EXCEPT !.nr = nr, !.usis = usis]
                              ELSE @]
    ELSE
      LET raw == RawCallback(u)
          rxEv == ~raw /\ (usis \cap RxEvents # {})
          hasRx == HasBuf(u.rx_buffer)
          avail == uart_rxfifo_count(s, nr)
          space0 == getFreeSpace(u.rx_buffer)
          n == IF rxEv /\ hasRx THEN Min(avail, space0) ELSE 0
          space == space0 - n
          read == IF rxEv /\ hasRx THEN ReadAfterDrain(n) ELSE 0
          rxb == [u.rx_buffer EXCEPT !.data = @ \o SubSeq(s.rxfifo[nr], 1, n)]
          fifo == SubSeq(s.rxfifo[nr], n + 1, avail)
          status1 == IF rxEv /\ hasRx /\ SuppressRxFull(space, u.rx_headroom)
                     THEN usis \ {"FULL"} ELSE usis
          ena1 == IF ~rxEv THEN s.int_ena[nr]
                  ELSE IF "OVF" \in usis THEN MaskOverflow(s.int_ena[nr])
                  ELSE IF read = 0 THEN s.int_ena[nr] \ {"FULL", "TOUT"}
                  ELSE s.int_ena[nr]
          txEv == ~raw /\ ("TXE" \in usis)
          hasTx == HasBuf(u.tx_buffer)
          count == IF txEv /\ hasTx
                   THEN Min(available(u.tx_buffer), uart_txfifo_free(s, nr)) ELSE 0
          txb == [u.tx_buffer EXCEPT !.data = SubSeq(@, count + 1, Len(@))]
          moved == SubSeq(u.tx_buffer.data, 1, count)
          cnt == s.txcnt[nr] + count
          ena2 == IF txEv /\ TxFifoRemainsEmpty(cnt) THEN ena1 \ {"TXE"} ELSE ena1
          status2 == IF txEv /\ ~TxFifoRemainsEmpty(cnt)
                     THEN status1 \ {"TXE"} ELSE status1
          called == status2 # {} /\ u.callback
          mut == IF ~Keeps(s, "mut") THEN s.lastMut
                 ELSE IF count > 0
                 THEN [ctx |-> "isr", buf |-> "tx", kind |-> "readChar", masked |-> TRUE]
                 ELSE IF n > 0
                 THEN [ctx |-> "isr", buf |-> "rx", kind |-> "writeChar", masked |-> TRUE]
                 ELSE s.lastMut
      IN [s EXCEPT !.uart[nr].rx_buffer = rxb,
                   !.uart[nr].tx_buffer = txb,
                   !.uart[nr].status = StickyStatus(@, status2),
                   !.rxfifo[nr] = fifo,
                   !.txcnt[nr] = cnt,
                   !.fifoIn = IF nr = UART0 /\ Keeps(s, "fifo") THEN @ \o moved ELSE @,
                   !.int_ena[nr] = ena2,
                   !.int_raw[nr] = @ \ usis,
                   !.lastMut = mut,
                   !.op.quiet = IF s.pc # "idle" /\ s.op.nr = nr /\ count > 0
                                THEN FALSE ELSE @,
                   !.isrLog = IF Keeps(s, "isr")
                              THEN [nr |-> nr, usis |-> usis, status |-> status2,
                                    called |-> called, drained |-> n, space |-> space,
                                    cap |-> u.rx_buffer.cap,
                                    headroom |-> u.rx_headroom,
                                    callback |-> u.callback, raw |-> raw,
                                    avail |-> avail, free |-> space0,
                                    ena |-> ena2,
                                    txCap |-> u.tx_buffer.cap,
                                    txAvail |-> available(u.tx_buffer),
                                    txFree |-> uart_txfifo_free(s, nr),
                                    count |-> count, txcnt |-> cnt,
                                    txLeft |-> available(txb),
                                    sticky |-> u.status, serviced |-> TRUE,
                                    fn |-> u.fn, param |-> u.param,
                                    at |-> IF Keeps(s, "at") THEN s.pc ELSE "idle"]
                              ELSE @]

\* Both UARTs share the same ISR
uart_isr(s) ==
    handle_uart_interrupt(handle_uart_interrupt(s, UART0), UART1)

(***************************************************************************)
(* smg_uart_write, one step per FIFO / buffer access                       *)
(***************************************************************************)
\* Faulty variant: always write directly to the hardware FIFO
TxDirect_Always(u) == TRUE

\* If TX buffer not in use or it's empty then write directly to hardware FIFO
TxDirect(u) == ~HasBuf(u.tx_buffer) \/ isEmpty(u.tx_buffer)

\* Top of the while(written < size) loop (lines 469-472)
WriteLoopHead(s) ==
    LET nr == s.op.nr
    IN [s EXCEPT !.pc = IF is_physical(nr) /\ TxDirect(s.uart[nr])
                        THEN "w_fifo" ELSE "w_buf"]

write_call(s, nr, size) ==
    LET u == s.uart[nr]
        o == [NoOp EXCEPT !.kind = "write", !.nr = nr, !.size = size,
                          !.base = s.nAccepted,
                          !.R = IF is_physical(nr) THEN uart_txfifo_free(s, nr) ELSE 0,
                          !.B = getFreeSpace(u.tx_buffer),
                          !.bufEmpty = isEmpty(u.tx_buffer)]
        s1 == [s EXCEPT !.op = o]
    IN IF ~smg_uart_tx_enabled(u) \/ size = 0
       THEN Return(s1, "write", nr, 0)
       ELSE WriteLoopHead(s1)

\* lines 473-475
write_fifo(s) ==
    LET nr == s.op.nr
    IN IF s.op.written < s.op.size /\ ~uart_txfifo_full(s, nr)
       THEN [s EXCEPT !.txcnt[nr] = @ + 1,
                      !.fifoIn = IF nr = UART0 /\ Keeps(s, "fifo")
                                 THEN Append(@, s.nAccepted + 1) ELSE @,
                      !.nAccepted = @ + 1,
                      !.op.written = @ + 1]
       ELSE [s EXCEPT !.pc = "w_arm"]

\* lines 477-478: enable TX FIFO EMPTY interrupt
write_arm(s) ==
    LET nr == s.op.nr
    IN [s EXCEPT !.int_raw[nr] = @ \ {"TXE"},
                 !.int_ena[nr] = @ \cup {"TXE"},
                 !.pc = "w_buf"]

\* lines 483-487
write_buf(s) ==
    LET nr == s.op.nr
        b == s.uart[nr].tx_buffer
    IN IF HasBuf(b) /\ s.op.written < s.op.size /\ ~BufFull(b)
       THEN MainMut([s EXCEPT !.uart[nr].tx_buffer = writeChar(@, s.nAccepted + 1),
                              !.nAccepted = @ + 1,
                              !.op.written = @ + 1], "tx", "writeChar")
       ELSE [s EXCEPT !.pc = "w_end"]

\* lines 489-496
write_end(s) ==
    LET nr == s.op.nr
    IN IF "TXWAIT" \notin s.uart[nr].options \/ s.op.written >= s.op.size
       THEN Return(s, "write", nr, s.op.written)
       ELSE WriteLoopHead(s)

(***************************************************************************)
(* smg_uart_wait_tx_empty: each loop is left by one step once its          *)
(* condition is false; while it is true the call spins without a step      *)
(***************************************************************************)
wait_call(s, nr) ==
    LET o == [NoOp EXCEPT !.kind = "wait_tx_empty", !.nr = nr]
        s1 == [s EXCEPT !.op = o]
    IN IF ~smg_uart_tx_enabled(s.uart[nr])
       THEN Return(s1, "wait_tx_empty", nr, 0)
       ELSE [s1 EXCEPT !.pc = "wt_buf"]

\* lines 525-529: the loop ends when the transmit buffer is absent or empty
WaitBufDone(s) ==
    ~HasBuf(s.uart[s.op.nr].tx_buffer) \/ isEmpty(s.uart[s.op.nr].tx_buffer)

wait_buf(s) ==
    IF is_physical(s.op.nr) THEN [s EXCEPT !.pc = "wt_fifo"]
    ELSE Return(s, "wait_tx_empty", s.op.nr, 0)

\* lines 531-534: the loop ends when the transmit FIFO is empty
WaitFifoDone(s) == uart_txfifo_count(s, s.op.nr) = 0

wait_fifo(s) == Return(s, "wait_tx_empty", s.op.nr, 0)

(***************************************************************************)
(* smg_uart_read, one step per buffer / FIFO access                        *)
(***************************************************************************)
read_call(s, nr, size) ==
    LET u == s.uart[nr]
        o == [NoOp EXCEPT !.kind = "read", !.nr = nr, !.size = size]
        s1 == [s EXCEPT !.op = o]
    IN IF ~smg_uart_rx_enabled(u) \/ size = 0
       THEN Return(s1, "read", nr, 0)
       ELSE [s1 EXCEPT !.pc = "r_buf"]

\* lines 368-371
read_buf(s) ==
    LET nr == s.op.nr
        b == s.uart[nr].rx_buffer
    IN IF HasBuf(b) /\ s.op.written < s.op.size /\ ~isEmpty(b)
       THEN MainMut([s EXCEPT !.uart[nr].rx_buffer = readChar(@),
                              !.readLog.out = IF Keeps(s, "out")
                                              THEN Append(@, Head(b.data)) ELSE @,
                              !.op.written = @ + 1], "rx", "readChar")
       ELSE IF is_physical(nr) THEN [s EXCEPT !.pc = "r_fifo"]
       ELSE Return(s, "read", nr, s.op.written)

\* lines 375-377
read_fifo(s) ==
    LET nr == s.op.nr
    IN IF s.op.written < s.op.size /\ uart_rxfifo_count(s, nr) # 0
       THEN [s EXCEPT !.rxfifo[nr] = Tail(@),
                      !.readLog.out = IF Keeps(s, "out")
                                      THEN Append(@, Head(s.rxfifo[nr])) ELSE @,
                      !.op.written = @ + 1]
       ELSE [s EXCEPT !.pc = "r_arm"]

\* lines 380-383
read_arm(s) ==
    LET nr == s.op.nr
        s1 == [s EXCEPT !.int_raw[nr] = @ \ {"FULL", "TOUT", "OVF"},
                        !.int_ena[nr] = @ \cup {"FULL", "TOUT", "OVF"}]
    IN Return(s1, "read", nr, s.op.written)

(***************************************************************************)
(* Status                                                                  *)
(***************************************************************************)
\* Faulty variant: the status read leaves the sticky flags and the raw flags in place
smg_uart_get_status_NoClear(s, nr) ==
    LET phys == get_physical(s, nr)
        intraw == IF phys = UART_NO THEN {} ELSE s.int_raw[phys] \cap ErrFlags
    IN <<s, (s.uart[nr].status \cap {"BRK", "OVF"}) \cup intraw>>

\* <<state, status>>
smg_uart_get_status(s, nr) ==
    LET s1 == smg_uart_disable_interrupts(s)
        sticky == s1.uart[nr].status \cap {"BRK", "OVF"}
        s2 == [s1 EXCEPT !.uart[nr].status = {}]
        phys == get_physical(s2, nr)
        intraw == IF phys = UART_NO THEN {} ELSE s2.int_raw[phys] \cap ErrFlags
        status == sticky \cup intraw
        s3 == IF phys = UART_NO THEN s2
              ELSE [s2 EXCEPT !.int_raw[phys] = @ \ status]
    IN <<smg_uart_restore_interrupts(s3), status>>

\* <<state, bytes available>>
smg_uart_rx_available(s, nr) ==
    LET u == s.uart[nr]
    IN IF ~smg_uart_rx_enabled(u) THEN <<s, 0>>
       ELSE LET s1 == smg_uart_disable_interrupts(s)
                fifo == IF is_physical(nr) THEN uart_rxfifo_count(s1, nr) ELSE 0
                buf == IF HasBuf(u.rx_buffer) THEN available(u.rx_buffer) ELSE 0
            IN <<smg_uart_restore_interrupts(s1), fifo + buf>>

\* <<state, free space>>
smg_uart_tx_free(s, nr) ==
    LET u == s.uart[nr]
    IN IF ~smg_uart_tx_enabled(u) THEN <<s, 0>>
       ELSE LET s1 == smg_uart_disable_interrupts(s)
                fifo == IF is_physical(nr) THEN uart_txfifo_free(s1, nr) ELSE 0
                buf == IF HasBuf(u.tx_buffer) THEN getFreeSpace(u.tx_buffer) ELSE 0
            IN <<smg_uart_restore_interrupts(s1), fifo + buf>>

(***************************************************************************)
(* Interrupt thresholds                                                    *)
(***************************************************************************)
\* The widest value of each 7-bit threshold field of UART_CONF1
UART_RXFIFO_FULL_THRHD == 127
UART_RX_TOUT_THRHD == 127
UART_TXFIFO_EMPTY_THRHD == 127

\* TRange(min, max).clip(v)
TRange_clip(min, max, v) == IF v < min THEN min ELSE IF v > max THEN max ELSE v

\* Faulty variant: the caller's threshold is used with a receive buffer too
RxFullThreshold_IgnoreBuffer(u, thresh) ==
    TRange_clip(1, UART_RXFIFO_FULL_THRHD, thresh)

\* The receive FIFO-full threshold of smg_uart_intr_config (lines 797-803)
RxFullThreshold(u, thresh) ==
    IF ~HasBuf(u.rx_buffer) THEN TRange_clip(1, UART_RXFIFO_FULL_THRHD, thresh)
    ELSE RX_FIFO_FULL_THRESHOLD

\* <<state, result>>; nr: the port of the caller's handle
smg_uart_intr_config(s, nr, config) ==
    LET p == get_physical(s, nr)
    IN IF p = UART_NO THEN <<s, FALSE>>
       ELSE
         LET u == s.uart[p]
             rx == smg_uart_rx_enabled(u)
             tx == smg_uart_tx_enabled(u)
             c1 == [rxfifo_full_thrhd |->
                        IF rx THEN ScaledThreshold(s, RxFullThreshold(u, config.rxfifo_full_thresh))
                        ELSE 0,
                    rx_tout_thrhd |->
                        IF rx THEN TRange_clip(0, UART_RX_TOUT_THRHD, config.rx_timeout_thresh)
                        ELSE 0,
                    rx_tout_en |-> rx,
                    txfifo_empty_thrhd |->
                        IF tx THEN TRange_clip(0, UART_TXFIFO_EMPTY_THRHD,
                                               config.txfifo_empty_intr_thresh)
                        ELSE 0]
         IN <<[s EXCEPT !.conf1[p] = c1], TRUE>>

\* Faulty variant: the old callback stays in place while param changes
set_callback_clear_Skip(s, nr) == s

\* uart->callback = nullptr (line 349).  callback: the pointer is not null;
\* fn: which function it points to (0: none)
set_callback_clear(s, nr) ==
    [s EXCEPT !.uart[nr].callback = FALSE, !.uart[nr].fn = 0]

\* uart->param = param (line 350)
set_callback_param(s, nr, param) == [s EXCEPT !.uart[nr].param = param]

\* uart->callback = callback (line 351)
set_callback_fn(s, nr, fn) ==
    [s EXCEPT !.uart[nr].callback = (fn # 0), !.uart[nr].fn = fn]

\* The whole call without preemption; cb: a callback is given (its param 0)
smg_uart_set_callback(s, nr, cb) ==
    set_callback_fn(set_callback_param(set_callback_clear(s, nr), nr, 0),
                    nr, IF cb THEN 1 ELSE 0)

(***************************************************************************)
(* Pin swap and pin assignment (UART0 only)                                *)
(***************************************************************************)
\* Faulty variant: the swap back ignores the requested transmit pin
SwapBackTx_Always1(tx_pin) == 1

\* Where smg_uart_swap goes back to when the pins are swapped (line 841)
SwapBackTx(tx_pin) == IF tx_pin = 2 THEN 2 ELSE 1

\* smg_uart_swap takes UART0 to the alternate pins when it is on 1, 2 or 3
\* (line 829)
SwapToAlt(u) == u.tx_pin = 1 \/ u.tx_pin = 2 \/ u.rx_pin = 3

SwapTx(u, tx_pin) ==
    IF ~smg_uart_tx_enabled(u) THEN u.tx_pin
    ELSE IF SwapToAlt(u) THEN 15 ELSE SwapBackTx(tx_pin)

SwapRx(u) ==
    IF ~smg_uart_rx_enabled(u) THEN u.rx_pin
    ELSE IF SwapToAlt(u) THEN 13 ELSE 3

\* The hardware writes of smg_uart_swap on UART0, in program order: both
\* restores (826-827), UART_SWAP0 (838 or 848), both selects (851-852)
SwapWrites(u, tx_pin) ==
    << [w |-> "restore", pin |-> u.tx_pin, val |-> FALSE],
       [w |-> "restore", pin |-> u.rx_pin, val |-> FALSE],
       [w |-> "swap0", pin |-> UART_PIN_DEFAULT, val |-> SwapToAlt(u)],
       [w |-> "select", pin |-> SwapTx(u, tx_pin), val |-> FALSE],
       [w |-> "select", pin |-> SwapRx(u), val |-> FALSE] >>

HwWrite(s, e) ==
    CASE e.w = "restore" -> uart0_pin_restore(s, e.pin)
      [] e.w = "select" -> uart0_pin_select(s, e.pin)
      [] e.w = "swap0" -> [s EXCEPT !.swap0 = e.val]

RECURSIVE HwWrites(_, _)
HwWrites(s, ws) ==
    IF ws = <<>> THEN s ELSE HwWrites(HwWrite(s, Head(ws)), Tail(ws))

smg_uart_swap(s, nr, tx_pin) ==
    IF nr # UART0 THEN s
    ELSE
      LET u == s.uart[nr]
          s1 == [s EXCEPT !.uart[nr].tx_pin = SwapTx(u, tx_pin),
                          !.uart[nr].rx_pin = SwapRx(u)]
      IN HwWrites(s1, SwapWrites(u, tx_pin))

\* <<state, result>>
smg_uart_set_tx(s, nr, tx_pin) ==
    LET u == s.uart[nr]
    IN IF nr = UART0 /\ smg_uart_tx_enabled(u)
       THEN LET s1 == uart0_pin_restore(s, u.tx_pin)
                tx == IF tx_pin = 2 THEN 2 ELSE 1
                s2 == [s1 EXCEPT !.uart[nr].tx_pin = tx]
            IN <<uart0_pin_select(s2, tx), TRUE>>
       ELSE <<s, FALSE>>

\* <<state, result>>
smg_uart_set_pins(s, nr, tx_pin, rx_pin) ==
    IF nr # UART0 THEN <<s, FALSE>>
    ELSE
      LET u == s.uart[nr]
          txDiff == smg_uart_tx_enabled(u) /\ u.tx_pin # tx_pin
          toAlt == rx_pin = 13 /\ tx_pin = 15
          toDef == rx_pin = 3 /\ (tx_pin = 1 \/ tx_pin = 2)
          s1 == IF ~txDiff THEN s
                ELSE IF toAlt THEN smg_uart_swap(s, nr, 15)
                ELSE IF toDef
                THEN (IF u.rx_pin # rx_pin THEN smg_uart_swap(s, nr, tx_pin)
                      ELSE smg_uart_set_tx(s, nr, tx_pin)[1])
                ELSE s
          res1 == ~txDiff \/ toAlt \/ toDef
          u1 == s1.uart[nr]
          rxDiff == smg_uart_rx_enabled(u1) /\ u1.rx_pin # rx_pin
          s2 == IF rxDiff /\ toAlt THEN smg_uart_swap(s1, nr, 15) ELSE s1
          res2 == IF rxDiff /\ ~toAlt THEN FALSE ELSE res1
      IN <<s2, res2>>

\* The pin state a pin operation starts from
PinState(s, nr) ==
    [tx_pin |-> s.uart[nr].tx_pin, rx_pin |-> s.uart[nr].rx_pin,
     swap0 |-> s.swap0, pinfunc |-> s.pinfunc]

LogPins(s, t, name, tx, rx, val) ==
    LET e == [op |-> name, tx |-> tx, rx |-> rx, val |-> val,
              pre |-> PinState(s, UART0),
              writes |-> IF name = "swap" THEN SwapWrites(s.uart[UART0], tx)
                         ELSE <<>>]
        old == IF Len(s.pinLog) = 0 THEN <<>> ELSE <<s.pinLog[Len(s.pinLog)]>>
    IN IF Keeps(s, "pins") THEN [t EXCEPT !.pinLog = Append(old, e)] ELSE t

(***************************************************************************)
(* Actions: API calls made by the mainline context                         *)
(***************************************************************************)
Live(nr) == uart[nr].st = "live"

\* The configuration of an open call, remembered in op for the history
InitEx ==
    /\ pc = "idle"
    /\ \E cfg \in env.cfgs, rxOk \in env.allocs, txOk \in env.allocs :
         LET r == smg_uart_init_ex(S, cfg, rxOk, txOk)
             o == [NoOp EXCEPT !.kind = "init_ex", !.nr = cfg.uart_nr,
                               !.size = cfg.rx_size, !.written = cfg.tx_size,
                               !.quiet = rxOk /\ txOk, !.mode = cfg.mode,
                               !.rxOk = rxOk, !.txOk = txOk]
         IN Commit(Return([r[1] EXCEPT !.op = o, !.pinLog = <<>>, !.baudLog = <<>>,
                                       !.readLog = IF Keeps(S, "out") /\ r[2] = "ptr"
                                                   THEN [NoReadLog EXCEPT !.base = S.rxSeq]
                                                   ELSE @],
                          "init_ex", cfg.uart_nr, r[2]))

\* smg_uart_init_ex up to line 742; the three statements of its tail follow
\* as steps of their own
OpenCall ==
    /\ pc = "idle"
    /\ SteppedOpen(S)
    /\ \E cfg \in env.cfgs, rxOk \in env.allocs, txOk \in env.allocs :
         LET r == smg_uart_init_ex(S, cfg, rxOk, txOk)
             o == [NoOp EXCEPT !.kind = "init_ex", !.nr = cfg.uart_nr,
                               !.mode = cfg.mode]
         IN IF r[2] = "ptr"
            THEN Commit([r[1] EXCEPT !.op = o, !.pc = InitExOrder[1]])
            ELSE Commit(Return([r[1] EXCEPT !.op = o], "init_ex", cfg.uart_nr, r[2]))

OpenInstall ==
    /\ pc = "o_install"
    /\ Commit([InitExInstall(S, op.nr) EXCEPT !.pc = InitExAfter("o_install")])

OpenArm ==
    /\ pc = "o_arm"
    /\ Commit([smg_uart_start_isr(S, op.nr) EXCEPT !.pc = InitExAfter("o_arm")])

\* notify(uart, UART_NOTIFY_AFTER_OPEN) and return uart
OpenNotify ==
    /\ pc = "o_notify"
    /\ Commit(Return(S, "init_ex", op.nr, "ptr"))

Uninit ==
    /\ pc = "idle"
    /\ \E nr \in Ports :
         /\ Live(nr)
         /\ Commit(Return([smg_uart_uninit(S, nr) EXCEPT !.pinLog = <<>>,
                                                          !.baudLog = <<>>],
                          "uninit", nr, 0))

WriteCall ==
    /\ pc = "idle"
    /\ \E nr \in env.ioPorts, size \in env.sizes :
         /\ Live(nr)
         /\ nAccepted + size <= env.maxTx
         /\ Commit(write_call(S, nr, size))

WriteFifo == pc = "w_fifo" /\ Commit(write_fifo(S))
WriteArm == pc = "w_arm" /\ Commit(write_arm(S))
WriteBuf == pc = "w_buf" /\ Commit(write_buf(S))
WriteEnd == pc = "w_end" /\ Commit(write_end(S))

WaitCall ==
    /\ pc = "idle"
    /\ \E nr \in env.ioPorts :
         /\ Live(nr)
         /\ Commit(wait_call(S, nr))

WaitBuf == pc = "wt_buf" /\ WaitBufDone(S) /\ Commit(wait_buf(S))
WaitFifo == pc = "wt_fifo" /\ WaitFifoDone(S) /\ Commit(wait_fifo(S))

ReadCall ==
    /\ pc = "idle"
    /\ \E nr \in env.ioPorts, size \in env.sizes :
         /\ Live(nr)
         /\ Commit(read_call(S, nr, size))

ReadBuf == pc = "r_buf" /\ Commit(read_buf(S))
ReadFifo == pc = "r_fifo" /\ Commit(read_fifo(S))
ReadArm == pc = "r_arm" /\ Commit(read_arm(S))

\* An overflow is on record for the port: in the sticky status or latched in
\* the raw flags of the physical port behind it
OverflowRecorded(s, nr) ==
    \/ "OVF" \in s.uart[nr].status
    \/ /\ get_physical(s, nr) # UART_NO
       /\ "OVF" \in s.int_raw[get_physical(s, nr)]

LogStatus(s, t, nr, val) ==
    LET e == [nr |-> nr, val |-> val, recorded |-> OverflowRecorded(s, nr),
              sticky |-> "OVF" \in s.uart[nr].status, ovfSince |-> s.ovfSince]
        old == IF Len(s.statusLog) = 0 THEN <<>>
               ELSE <<s.statusLog[Len(s.statusLog)]>>
    IN IF Keeps(s, "status")
       THEN [t EXCEPT !.ovfSince = FALSE, !.statusLog = Append(old, e)]
       ELSE t

GetStatus ==
    /\ pc = "idle"
    /\ \E nr \in env.ioPorts :
         /\ Live(nr)
         /\ LET r == smg_uart_get_status(S, nr)
            IN Commit(Return(LogStatus(S, r[1], nr, r[2]), "get_status", nr, r[2]))

Flush ==
    /\ pc = "idle"
    /\ \E nr \in env.ioPorts, mode \in Modes :
         /\ Live(nr)
         /\ Commit(Return(smg_uart_flush(S, nr, mode), "flush", nr, 0))

\* The registrations an application makes: function i with its parameter i,
\* and 0 to unregister
Registrations == 0..2

\* smg_uart_set_callback one statement at a time
SetCbCall ==
    /\ pc = "idle"
    /\ \E nr \in env.ioPorts, r \in Registrations :
         /\ Live(nr)
         /\ uart[nr].fn # r
         /\ Commit([S EXCEPT !.pc = "sc_clear",
                             !.op = [NoOp EXCEPT !.kind = "set_callback", !.nr = nr,
                                                 !.fn = r, !.param = r]])

SetCbClear ==
    /\ pc = "sc_clear"
    /\ Commit([set_callback_clear(S, op.nr) EXCEPT !.pc = "sc_param"])

SetCbParam ==
    /\ pc = "sc_param"
    /\ Commit([set_callback_param(S, op.nr, op.param) EXCEPT !.pc = "sc_fn"])

SetCbFn ==
    /\ pc = "sc_fn"
    /\ Commit(Return(set_callback_fn(S, op.nr, op.fn), "set_callback", op.nr, 0))

\* The values a caller puts in a field of smg_uart_intr_config_t: both ends
\* of the hardware range and the first value above it
Thresholds == {0, 1, 127, 128}

IntrConfig ==
    /\ pc = "idle"
    /\ \E nr \in env.ioPorts, f \in Thresholds, t \in Thresholds, e \in Thresholds :
         /\ Live(nr)
         /\ LET config == [rxfifo_full_thresh |-> f, rx_timeout_thresh |-> t,
                           txfifo_empty_intr_thresh |-> e]
                r == smg_uart_intr_config(S, nr, config)
                o == [NoOp EXCEPT !.kind = "intr_config", !.nr = nr,
                                  !.rxfifo_full_thresh = f,
                                  !.rx_timeout_thresh = t,
                                  !.txfifo_empty_intr_thresh = e]
            IN Commit(Return([r[1] EXCEPT !.op = o], "intr_config", nr, r[2]))

RxAvailable ==
    /\ pc = "idle"
    /\ \E nr \in env.ioPorts :
         /\ Live(nr)
         /\ LET r == smg_uart_rx_available(S, nr)
            IN Commit(Return(r[1], "rx_available", nr, r[2]))

TxFree ==
    /\ pc = "idle"
    /\ \E nr \in env.ioPorts :
         /\ Live(nr)
         /\ LET r == smg_uart_tx_free(S, nr)
            IN Commit(Return(r[1], "tx_free", nr, r[2]))

SetCallback ==
    /\ pc = "idle"
    /\ \E nr \in env.ioPorts, cb \in BOOLEAN :
         /\ Live(nr)
         /\ uart[nr].callback # cb
         /\ Commit(Return(smg_uart_set_callback(S, nr, cb), "set_callback", nr, 0))

\* The application re-arms the interrupts of its open port
StartIsr ==
    /\ pc = "idle"
    /\ \E nr \in env.ioPorts :
         /\ Live(nr)
         /\ Commit(Return(smg_uart_start_isr(S, nr), "start_isr", nr, 0))

\* smg_uart_detach(int uart_nr): the port need not be open
Detach ==
    /\ pc = "idle"
    /\ \E nr \in env.ioPorts :
         Commit(Return(smg_uart_detach(S, nr), "detach", nr, 0))

DetachAll ==
    /\ pc = "idle"
    /\ Commit(Return(smg_uart_detach_all(S), "detach_all", 0, 0))

\* The application assigns the public field rx_headroom of its instance
SetHeadroom ==
    /\ pc = "idle"
    /\ \E nr \in env.ioPorts, h \in env.headrooms :
         /\ Live(nr)
         /\ uart[nr].rx_headroom # h
         /\ Commit(Return([S EXCEPT !.uart[nr].rx_headroom = h], "set_headroom", nr, 0))

\* Rates an application asks for: none, usual ones, one that does not divide
\* the clock, the clock itself and one above the clock
BaudRates == {0, 9600, 115200, 30000000, UART_CLK_FREQ, UART_CLK_FREQ + 1}

\* The divider smg_uart_set_baudrate_reg computes for a rate (line 623)
Divider(rate) == IF rate = 0 THEN 0 ELSE UART_CLK_FREQ \div rate

LogBaud(s, t, nr, rate, val) ==
    LET phys == get_physical(s, nr)
        e == [nr |-> nr, rate |-> rate, val |-> val,
              pre |-> s.clkdiv, post |-> t.clkdiv,
              stored |-> IF phys = UART_NO THEN 0 ELSE t.uart[phys].baud_rate]
        old == IF Len(s.baudLog) = 0 THEN <<>> ELSE <<s.baudLog[Len(s.baudLog)]>>
    IN IF Keeps(s, "baud") THEN [t EXCEPT !.baudLog = Append(old, e)] ELSE t

\* The rates of this workload: those the environment names, else all of them
EnvRates == IF "rates" \in DOMAIN env THEN env.rates ELSE BaudRates

SetBaudrate ==
    /\ pc = "idle"
    /\ \E nr \in Ports, rate \in EnvRates :
         /\ Live(nr)
         /\ LET r == smg_uart_set_baudrate(S, nr, rate)
            IN Commit(Return(LogBaud(S, r[1], nr, rate, r[2]),
                             "set_baudrate", nr, r[2]))

PinArgs == Pins \cup {UART_PIN_DEFAULT}

\* The tx_pin arguments of smg_uart_swap in this workload
EnvSwapPins == IF "swapPins" \in DOMAIN env THEN env.swapPins ELSE PinArgs

Swap ==
    /\ pc = "idle"
    /\ Live(UART0)
    /\ \E tx \in EnvSwapPins :
         LET t == smg_uart_swap(S, UART0, tx)
         IN Commit(Return(LogPins(S, t, "swap", tx, UART_PIN_DEFAULT, TRUE),
                          "swap", UART0, 0))

SetTx ==
    /\ pc = "idle"
    /\ Live(UART0)
    /\ \E tx \in PinArgs :
         LET r == smg_uart_set_tx(S, UART0, tx)
         IN Commit(Return(LogPins(S, r[1], "set_tx", tx, UART_PIN_DEFAULT, r[2]),
                          "set_tx", UART0, r[2]))

SetPins ==
    /\ pc = "idle"
    /\ Live(UART0)
    /\ \E tx \in PinArgs, rx \in PinArgs :
         LET r == smg_uart_set_pins(S, UART0, tx, rx)
         IN Commit(Return(LogPins(S, r[1], "set_pins", tx, rx, r[2]),
                          "set_pins", UART0, r[2]))

(***************************************************************************)
(* Actions: the hardware and the interrupt                                 *)
(***************************************************************************)
\* One byte leaves the transmit FIFO for the wire
HwTxDrain ==
    \E nr \in env.hwPorts :
       /\ txcnt[nr] > 0
       /\ Commit([S EXCEPT !.txcnt[nr] = @ - 1,
                           !.op.quiet = IF pc # "idle" /\ op.nr = nr THEN FALSE ELSE @])

\* The transmit FIFO is at or below its (zero) threshold: the condition is latched
HwTxEmpty ==
    \E nr \in env.hwPorts :
       /\ txcnt[nr] = 0
       /\ "TXE" \notin int_raw[nr]
       /\ Commit([S EXCEPT !.int_raw[nr] = @ \cup {"TXE"}])

\* One byte arrives from the wire; it is lost when the FIFO is full
HwRxByte ==
    \E nr \in env.hwPorts :
       /\ rxSeq < env.maxRx
       /\ IF Len(rxfifo[nr]) < env.rxFifoSize
          THEN Commit([S EXCEPT !.rxfifo[nr] = Append(@, rxSeq + 1),
                                !.rxSeq = @ + 1])
          ELSE Commit([S EXCEPT !.int_raw[nr] = @ \cup {"OVF"},
                                !.rxSeq = @ + 1,
                                !.readLog.lost = IF Keeps(S, "out") THEN TRUE ELSE @,
                                !.ovfSince = TRUE])

\* More bytes in the receive FIFO than the programmed threshold
HwRxFull ==
    \E nr \in env.hwPorts :
       /\ Len(rxfifo[nr]) > conf1[nr].rxfifo_full_thrhd
       /\ "FULL" \notin int_raw[nr]
       /\ Commit([S EXCEPT !.int_raw[nr] = @ \cup {"FULL"}])

\* The line went idle with bytes in the receive FIFO
HwRxTimeout ==
    \E nr \in env.hwPorts :
       /\ conf1[nr].rx_tout_en
       /\ Len(rxfifo[nr]) > 0
       /\ "TOUT" \notin int_raw[nr]
       /\ Commit([S EXCEPT !.int_raw[nr] = @ \cup {"TOUT"}])

\* The CPU takes the UART interrupt: uart_isr runs to completion
Isr ==
    /\ intrEnabled
    /\ \E nr \in Physical : int_raw[nr] \cap int_ena[nr] # {}
    /\ Commit(uart_isr(S))

(***************************************************************************)
(* Initial state: after reset, before any port is opened                   *)
(***************************************************************************)
\* boot: the interrupt sources the SDK left enabled on each physical port
\* (comment at lines 162-168)
InitBoot(e, boot) ==
    /\ uartInstances = [n \in Ports |-> "null"]
    /\ uart = [n \in Ports |-> NoUart]
    /\ isrMask = {}
    /\ intrEnabled = FALSE
    /\ int_ena = boot
    /\ int_raw = [n \in Physical |-> {}]
    /\ conf1 = [n \in Physical |-> NoConf1]
    /\ rxfifo = [n \in Physical |-> <<>>]
    /\ txcnt = [n \in Physical |-> 0]
    /\ clkdiv = [n \in Physical |-> 0]
    /\ swap0 = FALSE
    /\ pinfunc = [p \in Pins |-> "GPIO"]
    /\ pc = "idle"
    /\ op = NoOp
    /\ ret = NoRet
    /\ env = e
    /\ fifoIn = <<>>
    /\ nAccepted = 0
    /\ rxSeq = 0
    /\ isrLog = NoIsrLog
    /\ lastMut = NoMut
    /\ pinLog = <<>>
    /\ ovfSince = FALSE
    /\ statusLog = <<>>
    /\ heap = 0
    /\ baudLog = <<>>
    /\ readLog = NoReadLog

InitWith(e) == InitBoot(e, [n \in Physical |-> {}])

Cfg(nr, mode, options, tx_pin, rx_size, tx_size, baudrate) ==
    [uart_nr |-> nr, mode |-> mode, options |-> options, tx_pin |-> tx_pin,
     rx_size |-> rx_size, tx_size |-> tx_size, baudrate |-> baudrate]

(***************************************************************************)
(* Spec: open and close of all ports, with traffic                         *)
(***************************************************************************)
LcTxFifo == 2
LcRxFifo == 2
LcBuf == 1
LcMaxTx == 2
LcMaxRx == 1

LcEnv ==
    [txFifoSize |-> LcTxFifo, rxFifoSize |-> LcRxFifo,
     cfgs |-> { Cfg(nr, m, {}, 2, LcBuf, LcBuf, 115200) :
                  nr \in 0 .. UART_COUNT, m \in {"UART_FULL", "UART_RX_ONLY"} },
     allocs |-> BOOLEAN, sizes |-> {LcMaxTx}, maxTx |-> LcMaxTx, maxRx |-> LcMaxRx,
     hwPorts |-> {UART0}, ioPorts |-> {UART0}, headrooms |-> {},
     hist |-> {"tick"}]

Init == InitWith(LcEnv)

Next ==
    \/ InitEx
    \/ Uninit
    \/ WriteCall
    \/ WriteFifo
    \/ WriteArm
    \/ WriteBuf
    \/ WriteEnd
    \/ HwTxDrain
    \/ HwTxEmpty
    \/ Isr

Spec == Init /\ [][Next]_vars

(***************************************************************************)
(* SpecPins: pin operations on UART0 in every mode                         *)
(***************************************************************************)
PinEnv ==
    [txFifoSize |-> LcTxFifo, rxFifoSize |-> LcRxFifo,
     cfgs |-> { Cfg(UART0, m, {}, tx, 0, 0, 115200) : m \in Modes, tx \in {1, 2} },
     allocs |-> {TRUE}, sizes |-> {}, maxTx |-> 0, maxRx |-> 0,
     hwPorts |-> {}, ioPorts |-> {UART0}, headrooms |-> {},
     hist |-> {"pins"}]

InitPins == InitWith(PinEnv)

NextPins ==
    \/ InitEx
    \/ Uninit
    \/ Swap
    \/ SetTx
    \/ SetPins

SpecPins == InitPins /\ [][NextPins]_vars

(***************************************************************************)
(* SpecTx: writes to UART0 with a transmit buffer, with and without        *)
(* UART_OPT_TXWAIT, against the draining FIFO and the interrupt            *)
(***************************************************************************)
TxFifo == 3
TxBuf == 1
TxLen == 4
TxTotal == 5

TxEnv ==
    [txFifoSize |-> TxFifo, rxFifoSize |-> LcRxFifo,
     cfgs |-> { Cfg(UART0, "UART_TX_ONLY", o, 1, 0, TxBuf, 115200) :
                  o \in {{}, {"TXWAIT"}} },
     allocs |-> {TRUE}, sizes |-> {1, TxLen}, maxTx |-> TxTotal, maxRx |-> 0,
     hwPorts |-> {UART0}, ioPorts |-> {UART0}, headrooms |-> {},
     hist |-> {"fifo", "mut", "call", "tick"}]

InitTx == InitWith(TxEnv)

NextTx ==
    \/ InitEx
    \/ WriteCall
    \/ WriteFifo
    \/ WriteArm
    \/ WriteBuf
    \/ WriteEnd
    \/ HwTxDrain
    \/ HwTxEmpty
    \/ Isr

SpecTx == InitTx /\ [][NextTx]_vars

\* The mainline keeps running, the FIFO keeps draining, the empty condition
\* is raised and a pending enabled interrupt is serviced
SpecTxFair ==
    /\ SpecTx
    /\ WF_vars(WriteFifo)
    /\ WF_vars(WriteArm)
    /\ WF_vars(WriteBuf)
    /\ WF_vars(WriteEnd)
    /\ WF_vars(HwTxDrain)
    /\ WF_vars(HwTxEmpty)
    /\ WF_vars(Isr)

(***************************************************************************)
(* SpecWr: one write to UART0 with 16 free FIFO slots and an 8 slot buffer *)
(***************************************************************************)
WrFifo == 17
WrBuf == 8
WrLen == 20
WrLong == 26

WrEnv ==
    [txFifoSize |-> WrFifo, rxFifoSize |-> LcRxFifo,
     cfgs |-> { Cfg(UART0, "UART_FULL", {}, 1, 0, WrBuf, 115200) },
     allocs |-> {TRUE}, sizes |-> {WrLen, WrLong}, maxTx |-> WrLong, maxRx |-> 0,
     hwPorts |-> {UART0}, ioPorts |-> {UART0}, headrooms |-> {},
     hist |-> {"call", "tick"}]

InitWr == InitWith(WrEnv)

SpecWr == InitWr /\ [][NextTx]_vars

(***************************************************************************)
(* SpecRx: reception on UART0 into an 8 byte buffer: bytes arrive, the     *)
(* FIFO overflows, the handler drains and calls back                       *)
(***************************************************************************)
RxFifo == 6
RxBuf == 8
RxHeadroom == 2
RxTotal == 8

RxEnv ==
    [txFifoSize |-> LcTxFifo, rxFifoSize |-> RxFifo,
     cfgs |-> { Cfg(UART0, "UART_FULL", {}, 1, RxBuf, 0, 115200) },
     allocs |-> {TRUE}, sizes |-> {}, maxTx |-> 0, maxRx |-> RxTotal,
     hwPorts |-> {UART0}, ioPorts |-> {UART0}, headrooms |-> {RxHeadroom},
     hist |-> {"isr"}]

InitRx == InitWith(RxEnv)

NextRx ==
    \/ InitEx
    \/ SetHeadroom
    \/ SetCallback
    \/ HwRxByte
    \/ HwRxFull
    \/ HwRxTimeout
    \/ Isr

SpecRx == InitRx /\ [][NextRx]_vars

(***************************************************************************)
(* SpecSt: reception on UART0 with overflows, reads and status reads       *)
(***************************************************************************)
StFifo == 2
StBuf == 2
StLen == 1
StTotal == 4

StEnv ==
    [txFifoSize |-> LcTxFifo, rxFifoSize |-> StFifo,
     cfgs |-> { Cfg(UART0, "UART_FULL", {}, 1, StBuf, 0, 115200) },
     allocs |-> {TRUE}, sizes |-> {StLen}, maxTx |-> 0, maxRx |-> StTotal,
     hwPorts |-> {UART0}, ioPorts |-> {UART0}, headrooms |-> {},
     hist |-> {"status"}]

InitSt == InitWith(StEnv)

NextSt ==
    \/ InitEx
    \/ HwRxByte
    \/ HwRxFull
    \/ HwRxTimeout
    \/ Isr
    \/ ReadCall
    \/ ReadBuf
    \/ ReadFifo
    \/ ReadArm
    \/ GetStatus

SpecSt == InitSt /\ [][NextSt]_vars

(***************************************************************************)
(* SpecOpen: opening and closing every port id in every mode, with and     *)
(* without buffers, with allocations that may fail                         *)
(***************************************************************************)
OpBuf == 1

OpEnv ==
    [txFifoSize |-> LcTxFifo, rxFifoSize |-> LcRxFifo,
     cfgs |-> { Cfg(nr, m, {}, 1, b, b, 115200) :
                  nr \in Physical, m \in Modes, b \in {0, OpBuf} }
              \cup { Cfg(UART2, "UART_FULL", {}, 1, 0, 0, 115200) },
     allocs |-> BOOLEAN, sizes |-> {}, maxTx |-> 0, maxRx |-> 0,
     hwPorts |-> {}, ioPorts |-> {}, headrooms |-> {},
     hist |-> {"call", "tick"}]

InitOpen == InitWith(OpEnv)

NextOpen ==
    \/ InitEx
    \/ Uninit

SpecOpen == InitOpen /\ [][NextOpen]_vars

(***************************************************************************)
(* SpecBaud: baud-rate programming of the open ports                       *)
(***************************************************************************)
BaudEnv ==
    [txFifoSize |-> LcTxFifo, rxFifoSize |-> LcRxFifo,
     cfgs |-> { Cfg(nr, "UART_FULL", {}, 1, 0, 0, b) :
                  nr \in Ports, b \in {0, 115200} },
     allocs |-> {TRUE}, sizes |-> {}, maxTx |-> 0, maxRx |-> 0,
     hwPorts |-> {}, ioPorts |-> {}, headrooms |-> {},
     hist |-> {"baud"}]

InitBaud == InitWith(BaudEnv)

NextBaud ==
    \/ InitEx
    \/ Uninit
    \/ SetBaudrate

SpecBaud == InitBaud /\ [][NextBaud]_vars

(***************************************************************************)
(* SpecIrq: reception on UART0 next to an open UART1, with reads, flushes, *)
(* and the interrupt sources armed and disarmed by the application         *)
(***************************************************************************)
IrqFifo == 2
IrqBuf == 1
IrqLen == 1
IrqTotal == 3

IrqEnv ==
    [txFifoSize |-> LcTxFifo, rxFifoSize |-> IrqFifo,
     cfgs |-> { Cfg(UART0, "UART_FULL", {}, 1, IrqBuf, 0, 115200),
                Cfg(UART1, "UART_TX_ONLY", {}, 2, 0, 0, 115200) },
     allocs |-> {TRUE}, sizes |-> {IrqLen}, maxTx |-> 0, maxRx |-> IrqTotal,
     hwPorts |-> {UART0}, ioPorts |-> {UART0}, headrooms |-> {},
     hist |-> {"isr"}]

\* What the SDK may have left enabled on a port at boot
BootEna == { {}, {"FULL", "TOUT"} }

InitIrq == \E b \in BootEna : InitBoot(IrqEnv, [n \in Physical |-> b])

NextIrq ==
    \/ InitEx
    \/ Detach
    \/ DetachAll
    \/ StartIsr
    \/ HwRxByte
    \/ HwRxFull
    \/ HwRxTimeout
    \/ Isr
    \/ ReadCall
    \/ ReadBuf
    \/ ReadFifo
    \/ ReadArm
    \/ Flush

SpecIrq == InitIrq /\ [][NextIrq]_vars

(***************************************************************************)
(* SpecTxIrq: the FIFO-empty interrupt of UART0 with a transmit buffer     *)
(* larger than the FIFO, with and without a data callback                  *)
(***************************************************************************)
TiFifo == 2
TiBuf == 2
TiLen == 3
TiTotal == 4

TiEnv ==
    [txFifoSize |-> TiFifo, rxFifoSize |-> LcRxFifo,
     cfgs |-> { Cfg(UART0, "UART_TX_ONLY", {}, 1, 0, TiBuf, 115200) },
     allocs |-> {TRUE}, sizes |-> {1, TiLen}, maxTx |-> TiTotal, maxRx |-> 0,
     hwPorts |-> {UART0}, ioPorts |-> {UART0}, headrooms |-> {},
     hist |-> {"isr", "fifo"}]

InitTxIrq == InitWith(TiEnv)

NextTxIrq ==
    \/ InitEx
    \/ SetCallback
    \/ WriteCall
    \/ WriteFifo
    \/ WriteArm
    \/ WriteBuf
    \/ WriteEnd
    \/ GetStatus
    \/ HwTxDrain
    \/ HwTxEmpty
    \/ Isr

SpecTxIrq == InitTxIrq /\ [][NextTxIrq]_vars

(***************************************************************************)
(* SpecRd: smg_uart_read on UART0 interleaved with arrivals and the        *)
(* interrupt                                                               *)
(***************************************************************************)
RdFifo == 2
RdBuf == 2
RdLen == 2
RdTotal == 3

RdEnv ==
    [txFifoSize |-> LcTxFifo, rxFifoSize |-> RdFifo,
     cfgs |-> { Cfg(UART0, "UART_FULL", {}, 1, RdBuf, 0, 115200) },
     allocs |-> {TRUE}, sizes |-> {1, RdLen}, maxTx |-> 0, maxRx |-> RdTotal,
     hwPorts |-> {UART0}, ioPorts |-> {UART0}, headrooms |-> {},
     hist |-> {"out"}]

InitRd == InitWith(RdEnv)

NextRd ==
    \/ InitEx
    \/ HwRxByte
    \/ HwRxFull
    \/ HwRxTimeout
    \/ Isr
    \/ ReadCall
    \/ ReadBuf
    \/ ReadFifo
    \/ ReadArm

SpecRd == InitRd /\ [][NextRd]_vars

(***************************************************************************)
(* SpecWait: writes to UART0 followed by smg_uart_wait_tx_empty, against   *)
(* the draining FIFO and the interrupt                                     *)
(***************************************************************************)
WtFifo == 2
WtBuf == 1
WtLen == 2
WtTotal == 4

WtEnv ==
    [txFifoSize |-> WtFifo, rxFifoSize |-> LcRxFifo,
     cfgs |-> { Cfg(UART0, "UART_TX_ONLY", {}, 1, 0, b, 115200) : b \in {0, WtBuf} },
     allocs |-> {TRUE}, sizes |-> {1, WtLen}, maxTx |-> WtTotal, maxRx |-> 0,
     hwPorts |-> {UART0}, ioPorts |-> {UART0}, headrooms |-> {},
     hist |-> {}]

InitWait == InitWith(WtEnv)

NextWait ==
    \/ InitEx
    \/ WriteCall
    \/ WriteFifo
    \/ WriteArm
    \/ WriteBuf
    \/ WriteEnd
    \/ WaitCall
    \/ WaitBuf
    \/ WaitFifo
    \/ HwTxDrain
    \/ HwTxEmpty
    \/ Isr

SpecWait == InitWait /\ [][NextWait]_vars

\* The mainline keeps running, the FIFO keeps draining, the empty condition
\* is raised and a pending enabled interrupt is serviced
SpecWaitFair ==
    /\ SpecWait
    /\ WF_vars(WriteFifo)
    /\ WF_vars(WriteArm)
    /\ WF_vars(WriteBuf)
    /\ WF_vars(WriteEnd)
    /\ WF_vars(WaitBuf)
    /\ WF_vars(WaitFifo)
    /\ WF_vars(HwTxDrain)
    /\ WF_vars(HwTxEmpty)
    /\ WF_vars(Isr)

(***************************************************************************)
(* SpecRaw: UART0 opened with UART_OPT_CALLBACK_RAW, with both buffers,    *)
(* receiving and transmitting                                              *)
(***************************************************************************)
RawFifo == 2
RawBuf == 1
RawLen == 2
RawTotal == 2

RawEnv ==
    [txFifoSize |-> RawFifo, rxFifoSize |-> RawFifo,
     cfgs |-> { Cfg(UART0, "UART_FULL", {"RAW"}, 1, RawBuf, RawBuf, 115200) },
     allocs |-> {TRUE}, sizes |-> {RawLen}, maxTx |-> RawTotal, maxRx |-> RawTotal,
     hwPorts |-> {UART0}, ioPorts |-> {UART0}, headrooms |-> {},
     hist |-> {"isr"}]

InitRaw == InitWith(RawEnv)

NextRaw ==
    \/ InitEx
    \/ SetCallback
    \/ WriteCall
    \/ WriteFifo
    \/ WriteArm
    \/ WriteBuf
    \/ WriteEnd
    \/ HwTxDrain
    \/ HwTxEmpty
    \/ HwRxByte
    \/ HwRxFull
    \/ HwRxTimeout
    \/ Isr

SpecRaw == InitRaw /\ [][NextRaw]_vars

(***************************************************************************)
(* SpecSticky: every operation on the open UART0 next to its interrupts    *)
(***************************************************************************)
SkFifo == 2
SkBuf == 1
SkLen == 1
SkTotal == 2

SkEnv ==
    [txFifoSize |-> SkFifo, rxFifoSize |-> SkFifo,
     cfgs |-> { Cfg(UART0, "UART_FULL", {}, 1, SkBuf, SkBuf, 115200) },
     allocs |-> {TRUE}, sizes |-> {SkLen}, maxTx |-> SkTotal, maxRx |-> SkTotal,
     hwPorts |-> {UART0}, ioPorts |-> {UART0}, headrooms |-> {},
     hist |-> {}, rates |-> {9600}, swapPins |-> {UART_PIN_DEFAULT}]

InitSticky == InitWith(SkEnv)

NextSticky ==
    \/ InitEx
    \/ WriteCall
    \/ WriteFifo
    \/ WriteArm
    \/ WriteBuf
    \/ WriteEnd
    \/ ReadCall
    \/ ReadBuf
    \/ ReadFifo
    \/ ReadArm
    \/ GetStatus
    \/ Flush
    \/ SetBaudrate
    \/ Swap
    \/ HwTxDrain
    \/ HwTxEmpty
    \/ HwRxByte
    \/ HwRxFull
    \/ HwRxTimeout
    \/ Isr

SpecSticky == InitSticky /\ [][NextSticky]_vars

(***************************************************************************)
(* Claims                                                                  *)
(***************************************************************************)
HwState == <<isrMask, intrEnabled, int_ena, int_raw, conf1, rxfifo, txcnt,
             clkdiv, swap0, pinfunc>>

\* C1: smg_uart_init_ex for a port id that is open returns null, and the
\* instance, the registry, the interrupt-armed mask and the hardware registers
\* are as they were before the call.
C1_SecondOpenFails ==
    [][(/\ ret'.tick # ret.tick
        /\ ret'.op = "init_ex"
        /\ ret'.nr \in Ports
        /\ uartInstances[ret'.nr] = "ptr"
        /\ uart[ret'.nr].st = "live")
       => (/\ ret'.val = "null"
           /\ UNCHANGED <<uart, uartInstances>>
           /\ UNCHANGED HwState)]_vars

\* An open of UART0 has failed while its instance holds queued bytes and a
\* sticky status
C1_Witness ==
    /\ pc = "idle"
    /\ ret.op = "init_ex"
    /\ ret.nr = UART0
    /\ ret.val = "null"
    /\ uart[UART0].st = "live"
    /\ Len(uart[UART0].tx_buffer.data) > 0
    /\ UART0 \in isrMask

\* A configuration that the port accepts (UART1 has no receive-only mode)
ValidCfg(cfg) ==
    /\ cfg.uart_nr \in Ports
    /\ ~(cfg.uart_nr = UART1 /\ cfg.mode = "UART_RX_ONLY")

\* C2: once smg_uart_uninit has returned, the registry holds no instance for
\* the port, its interrupt-armed bit is clear, and an open of the same id
\* (valid configuration, allocation succeeding) returns an instance with empty
\* buffers and zero status.
C2_CloseFreesPort ==
    ret.op = "uninit" =>
       /\ smg_uart_get_uart(S, ret.nr) = "null"
       /\ ret.nr \notin isrMask
       /\ \A cfg \in env.cfgs :
            (cfg.uart_nr = ret.nr /\ ValidCfg(cfg)) =>
               LET r == smg_uart_init_ex(S, cfg, TRUE, TRUE)
               IN /\ r[2] = "ptr"
                  /\ r[1].uart[ret.nr].st = "live"
                  /\ isEmpty(r[1].uart[ret.nr].rx_buffer)
                  /\ isEmpty(r[1].uart[ret.nr].tx_buffer)
                  /\ r[1].uart[ret.nr].status = {}

\* The default assignment of a mode: tx_pin 1 or 2 if it transmits, rx_pin 3
\* if it receives (an unused role keeps UART_PIN_DEFAULT), swap bit clear
DefaultPins(u, p) ==
    /\ p.tx_pin = (IF smg_uart_tx_enabled(u) THEN p.tx_pin ELSE UART_PIN_DEFAULT)
    /\ smg_uart_tx_enabled(u) => p.tx_pin \in {1, 2}
    /\ p.rx_pin = (IF smg_uart_rx_enabled(u) THEN 3 ELSE UART_PIN_DEFAULT)
    /\ ~p.swap0

\* C9: on UART0, in every mode and from every default assignment, smg_uart_swap
\* followed by smg_uart_swap with the original transmit pin as target restores
\* the original tx_pin, rx_pin and swap control bit.
C9_SwapIsInvolution ==
    (/\ Len(pinLog) = 2
     /\ pinLog[1].op = "swap"
     /\ pinLog[2].op = "swap"
     /\ DefaultPins(uart[UART0], pinLog[1].pre)
     /\ pinLog[2].tx = pinLog[1].pre.tx_pin)
    => (/\ uart[UART0].tx_pin = pinLog[1].pre.tx_pin
        /\ uart[UART0].rx_pin = pinLog[1].pre.rx_pin
        /\ swap0 = pinLog[1].pre.swap0)

\* Swapped there and back from transmit pin 2 in full mode
C9_Witness ==
    /\ Len(pinLog) = 2
    /\ pinLog[1].op = "swap"
    /\ pinLog[2].op = "swap"
    /\ uart[UART0].mode = "UART_FULL"
    /\ pinLog[1].pre.tx_pin = 2
    /\ pinLog[1].pre.rx_pin = 3
    /\ ~pinLog[1].pre.swap0
    /\ pinLog[2].pre.tx_pin = 15
    /\ pinLog[2].pre.rx_pin = 13
    /\ pinLog[2].pre.swap0
    /\ pinLog[2].tx = 2
    /\ uart[UART0].tx_pin = 2

\* C10: when smg_uart_set_pins returns false, tx_pin, rx_pin, the pin function
\* selections and the swap control bit are as they were before the call.
C10_SetPinsAllOrNothing ==
    (/\ Len(pinLog) > 0
     /\ pinLog[Len(pinLog)].op = "set_pins"
     /\ pinLog[Len(pinLog)].val = FALSE)
    => PinState(S, UART0) = pinLog[Len(pinLog)].pre

\* C3: the bytes that entered the transmit FIFO of UART0, followed by the bytes
\* still queued in its transmit buffer, are the accepted bytes 1 .. nAccepted in
\* call order: nothing reordered, duplicated or dropped.
C3_TxOrderPreserved ==
    uart[UART0].st = "live"
    => fifoIn \o uart[UART0].tx_buffer.data = [i \in 1 .. nAccepted |-> i]

\* All accepted bytes of several writes went into the FIFO, the last ones moved
\* there from the buffer by the interrupt handler
C3_Witness ==
    /\ pc = "idle"
    /\ ret.op = "write"
    /\ nAccepted = TxTotal
    /\ Len(fifoIn) = nAccepted
    /\ lastMut.ctx = "isr"
    /\ lastMut.buf = "tx"
    /\ txcnt[UART0] < TxFifo - 1

\* C4: a buffer is mutated by mainline code only while UART interrupts are
\* masked.
C4_MainlineMutatesMasked == lastMut.ctx = "main" => lastMut.masked

\* C7: with UART_OPT_TXWAIT off, a write of N bytes that starts with an empty
\* transmit buffer of B free slots and R free FIFO slots, and during which the
\* FIFO does not drain, returns min(N, R + B): min(N, R) bytes went into the
\* FIFO and the following min(N - min(N, R), B) bytes into the buffer.
C7_WriteAccepts ==
    [][(/\ ret'.tick # ret.tick
        /\ ret'.op = "write"
        /\ is_physical(ret'.nr)
        /\ smg_uart_tx_enabled(uart[ret'.nr])
        /\ "TXWAIT" \notin uart[ret'.nr].options
        /\ ret'.call.bufEmpty
        /\ ret'.call.quiet)
       => LET c == ret'.call
              direct == Min(c.size, c.R)
              queued == Min(c.size - direct, c.B)
          IN /\ ret'.val = Min(c.size, c.R + c.B)
             /\ txcnt'[c.nr] = (env.txFifoSize - 1 - c.R) + direct
             /\ available(uart'[c.nr].tx_buffer) = queued]_vars

\* The write of 20 bytes with R = 16 and B = 8 has returned 20
C7_Witness ==
    /\ pc = "idle"
    /\ ret.op = "write"
    /\ ret.call.size = 20
    /\ ret.call.R = 16
    /\ ret.call.B = 8
    /\ ret.call.bufEmpty
    /\ ret.call.quiet
    /\ ret.val = 20
    /\ txcnt[UART0] = 16
    /\ available(uart[UART0].tx_buffer) = 4

\* C8: with UART_OPT_TXWAIT set, a write in progress eventually returns, and
\* returns the requested size.
C8_TxWaitWriteCompletes ==
    (/\ pc # "idle"
     /\ op.kind = "write"
     /\ "TXWAIT" \in uart[op.nr].options)
    ~> (/\ pc = "idle"
        /\ ret.op = "write"
        /\ ret.val = ret.call.size)

\* C5: of two consecutive status reads, when an overflow was on record (sticky
\* status or raw flags) at the first and none occurred between them, the first
\* returns the overflow flag and the second does not.
C5_StatusReadAndClear ==
    (/\ Len(statusLog) = 2
     /\ statusLog[1].recorded
     /\ ~statusLog[2].ovfSince)
    => (/\ "OVF" \in statusLog[1].val
        /\ "OVF" \notin statusLog[2].val)

\* Two status reads after an overflow that the handler put into the sticky
\* status
C5_Witness ==
    /\ Len(statusLog) = 2
    /\ statusLog[1].recorded
    /\ ~statusLog[2].ovfSince
    /\ "OVF" \in statusLog[1].val
    /\ "OVF" \notin statusLog[2].val
    /\ statusLog[1].sticky

\* A handler run for a receive event on a port with a receive buffer and a
\* registered callback
RxEventLogged ==
    /\ isrLog.nr = UART0
    /\ isrLog.callback
    /\ isrLog.cap > 0
    /\ isrLog.usis \cap RxEvents # {}

\* C6 as stated: with an 8 byte receive buffer and rx_headroom 2, the handler
\* run for a FIFO-full interrupt that drains 6 bytes and leaves free space 2
\* does not invoke the callback.
C6_SuppressedAtHeadroom ==
    (/\ RxEventLogged
     /\ "FULL" \in isrLog.usis
     /\ isrLog.cap = 8
     /\ isrLog.headroom = 2
     /\ isrLog.drained = 6
     /\ isrLog.space = 2)
    => ~isrLog.called

\* C6 amended: the callback is invoked for every receive event that leaves free
\* space equal to or below rx_headroom (free space 2 after draining 6 bytes,
\* free space 1 after one more); a FIFO-full event on its own is suppressed
\* only while the free space exceeds rx_headroom.
C6_CallbackAtOrBelowHeadroom ==
    RxEventLogged
    => (/\ isrLog.space <= isrLog.headroom => isrLog.called
        /\ (isrLog.usis = {"FULL"} /\ isrLog.space > isrLog.headroom)
           => ~isrLog.called)

\* The FIFO-full interrupt of the scenario: 6 bytes drained into the 8 byte
\* buffer, free space 2 = rx_headroom, callback invoked
C6_Witness ==
    /\ RxEventLogged
    /\ isrLog.usis = {"FULL"}
    /\ isrLog.cap = 8
    /\ isrLog.headroom = 2
    /\ isrLog.drained = 6
    /\ isrLog.space = 2
    /\ isrLog.called

\* C11: an open of UART1 in a mode that includes the receive role
\* (UART_RX_ONLY or UART_FULL) returns null and registers no instance.
C11_Uart1ReceiveRefused ==
    [][(/\ ret'.tick # ret.tick
        /\ ret'.op = "init_ex"
        /\ ret'.nr = UART1
        /\ ret'.call.mode \in {"UART_RX_ONLY", "UART_FULL"})
       => (/\ ret'.val = "null"
           /\ UNCHANGED uartInstances)]_vars

\* The open call c, made with an empty registry slot, needs a buffer whose
\* allocation fails
AllocFails(c) ==
    /\ c.kind = "init_ex"
    /\ c.nr \in Ports
    /\ uartInstances[c.nr] = "null"
    /\ ~(c.nr = UART1 /\ c.mode = "UART_RX_ONLY")
    /\ \/ /\ c.nr # UART1
          /\ c.mode # "UART_TX_ONLY"
          /\ (c.size > 0 \/ c.nr = UART2)
          /\ ~c.rxOk
       \/ /\ c.mode # "UART_RX_ONLY" \/ c.nr = UART1
          /\ (c.written > 0 \/ c.nr = UART2)
          /\ ~c.txOk

\* C12: an open whose receive or transmit buffer cannot be allocated returns
\* null, leaves no buffer allocated, leaves the registry, the instances, the
\* interrupt-armed mask and the interrupt-enable bits as they were, and the same
\* open succeeds afterwards when memory is available.
C12_AllocFailureIsClean ==
    [][(/\ ret'.tick # ret.tick
        /\ ret'.op = "init_ex"
        /\ AllocFails(ret'.call))
       => (/\ ret'.val = "null"
           /\ UNCHANGED <<uart, uartInstances, isrMask, int_ena, heap>>
           /\ LET c == ret'.call
                  r == smg_uart_init_ex(S, Cfg(c.nr, c.mode, {}, 1, c.size,
                                               c.written, 115200), TRUE, TRUE)
              IN /\ r[2] = "ptr"
                 /\ r[1].uartInstances[c.nr] = "ptr")]_vars

\* UART0 was asked for both buffers, the receive buffer was allocated and the
\* transmit buffer was not; UART1 is open with its buffer
C12_Witness ==
    /\ ret.op = "init_ex"
    /\ ret.val = "null"
    /\ ret.call.nr = UART0
    /\ ret.call.mode = "UART_FULL"
    /\ ret.call.size > 0
    /\ ret.call.written > 0
    /\ ret.call.rxOk
    /\ ~ret.call.txOk
    /\ uartInstances[UART0] = "null"
    /\ uartInstances[UART1] = "ptr"
    /\ heap = 1

\* C13: a baud-rate call whose computed divider is zero (rate zero, or above
\* the reference clock) reports the rate 0 and leaves the divider register as
\* it was.
C13_ZeroDividerLeavesHardware ==
    (/\ Len(baudLog) > 0
     /\ Divider(baudLog[Len(baudLog)].rate) = 0)
    => (/\ baudLog[Len(baudLog)].val = 0
        /\ baudLog[Len(baudLog)].post = baudLog[Len(baudLog)].pre)

\* C14: two consecutive baud-rate calls on the same port with the same rate
\* report the same effective rate and leave the same divider and the same
\* stored baud_rate.
C14_BaudrateIdempotent ==
    (/\ Len(baudLog) = 2
     /\ baudLog[1].nr = baudLog[2].nr
     /\ baudLog[1].rate = baudLog[2].rate)
    => (/\ baudLog[2].val = baudLog[1].val
        /\ baudLog[2].post = baudLog[1].post
        /\ baudLog[2].stored = baudLog[1].stored)

\* UART0 asked twice for 30 000 000 baud after running at 115200: divider 2,
\* effective rate 40 000 000 both times
C14_Witness ==
    /\ Len(baudLog) = 2
    /\ baudLog[1].nr = UART0
    /\ baudLog[2].nr = UART0
    /\ baudLog[1].rate = 30000000
    /\ baudLog[2].rate = 30000000
    /\ baudLog[1].pre[UART0] = UART_CLK_FREQ \div 115200
    /\ baudLog[1].val = 40000000
    /\ baudLog[2].val = 40000000
    /\ clkdiv[UART0] = 2
    /\ uart[UART0].baud_rate = 40000000

\* C15: in non-raw mode, when a FIFO-full or timeout interrupt without overflow
\* is serviced on a port whose receive buffer is already full, so that nothing
\* is drained, the handler disables the FIFO-full and timeout sources.
C15_FullBufferMasksRxSources ==
    (/\ isrLog.nr # UART_NO
     /\ isrLog.serviced
     /\ ~isrLog.raw
     /\ isrLog.usis \cap {"FULL", "TOUT"} # {}
     /\ "OVF" \notin isrLog.usis
     /\ isrLog.cap > 0
     /\ isrLog.free = 0
     /\ isrLog.drained = 0)
    => isrLog.ena \cap {"FULL", "TOUT"} = {}

\* The handler services an overflow event of port nr in this step
ServicesOverflow(nr) ==
    /\ Isr
    /\ "OVF" \in int_raw[nr] \cap int_ena[nr]
    /\ uartInstances[nr] # "null"
    /\ uart_isr_enabled(S, nr)
    /\ "RAW" \notin uart[nr].options

\* The overflow source of the open port nr, disabled when the last handler run
\* serviced an overflow, goes from disabled to enabled
OverflowRearmed(nr) ==
    /\ isrLog.nr = nr
    /\ isrLog.serviced
    /\ "OVF" \in isrLog.usis
    /\ uart[nr].st = "live"
    /\ uart'[nr].st = "live"
    /\ "OVF" \notin int_ena[nr]
    /\ "OVF" \in int_ena'[nr]

\* C16: in non-raw mode a handler run that services an overflow event disables
\* the overflow source, and on an open port that source goes from disabled to
\* enabled only in the re-arm step of smg_uart_read or in smg_uart_flush.
C16_OverflowRearmedOnlyByReadOrFlush ==
    [][\A nr \in Physical :
          /\ ServicesOverflow(nr) => "OVF" \notin int_ena'[nr]
          /\ OverflowRearmed(nr) => (ReadArm \/ Flush)]_vars

\* C16, with smg_uart_start_isr counted among the re-arming calls: a handler
\* run that services an overflow event disables the overflow source, and on an
\* open port that source goes from disabled to enabled only in the re-arm step
\* of smg_uart_read, in smg_uart_flush or in smg_uart_start_isr.
C16_OverflowRearmedOnlyByReadFlushOrStartIsr ==
    [][\A nr \in Physical :
          /\ ServicesOverflow(nr) => "OVF" \notin int_ena'[nr]
          /\ OverflowRearmed(nr) => (ReadArm \/ Flush \/ StartIsr)]_vars

\* The handler serviced an overflow on UART0 and disabled the source; a read
\* has enabled it again
C16_Witness ==
    /\ isrLog.nr = UART0
    /\ isrLog.serviced
    /\ "OVF" \in isrLog.usis
    /\ "OVF" \notin isrLog.ena
    /\ "OVF" \in int_ena[UART0]
    /\ ret.op = "read"
    /\ ret.val = 1
    /\ pc = "idle"

\* The handler is entered for port nr with pending status and either no
\* registered instance or a clear interrupt-armed bit
Unserviced(nr) ==
    /\ int_raw[nr] \cap int_ena[nr] # {}
    /\ uartInstances[nr] = "null" \/ nr \notin isrMask

\* C17: a handler run for a port with pending status and no registered instance,
\* or with its armed bit clear, disables the port's interrupt sources and
\* leaves the instance (buffers, sticky status), the virtual port's instance
\* and the FIFOs alone, and invokes no callback for the port.
C17_UnarmedPortOnlyDisabled ==
    [][\A nr \in Physical :
          (Isr /\ Unserviced(nr))
          => /\ int_ena'[nr] = {}
             /\ uart'[nr] = uart[nr]
             /\ uart'[UART2] = uart[UART2]
             /\ rxfifo'[nr] = rxfifo[nr]
             /\ txcnt'[nr] = txcnt[nr]
             /\ isrLog'.nr = nr => (~isrLog'.serviced /\ ~isrLog'.called)]_vars

\* UART0 is open, its armed bit was cleared, a read re-enabled its sources and
\* the handler then ran for a FIFO-full event
C17_Witness ==
    /\ isrLog.nr = UART0
    /\ ~isrLog.serviced
    /\ "FULL" \in isrLog.usis
    /\ uartInstances[UART0] = "ptr"
    /\ uart[UART0].st = "live"
    /\ UART0 \notin isrMask
    /\ UART1 \in isrMask
    /\ int_ena[UART0] = {}
    /\ Len(rxfifo[UART0]) > 0
    /\ ret.op = "read"

\* The handler services a receive event of port nr in this step
ServicesRx(nr) ==
    /\ Isr
    /\ int_raw[nr] \cap int_ena[nr] \cap RxEvents # {}
    /\ uartInstances[nr] # "null"
    /\ uart_isr_enabled(S, nr)
    /\ "RAW" \notin uart[nr].options
    /\ HasBuf(uart[nr].rx_buffer)

\* C18: in non-raw mode with a receive buffer a receive interrupt moves the
\* first min(bytes in FIFO, free space in buffer) bytes of the FIFO to the end
\* of the buffer, in order, and the buffer never holds more than its capacity.
C18_DrainIsMinInOrder ==
    [][\A nr \in Physical :
          /\ Len(uart'[nr].rx_buffer.data) <= uart'[nr].rx_buffer.cap
          /\ ServicesRx(nr)
             => LET avail == Len(rxfifo[nr])
                    free == uart[nr].rx_buffer.cap - Len(uart[nr].rx_buffer.data)
                    n == IF avail <= free THEN avail ELSE free
                IN /\ uart'[nr].rx_buffer.data
                        = uart[nr].rx_buffer.data \o SubSeq(rxfifo[nr], 1, n)
                   /\ rxfifo'[nr] = SubSeq(rxfifo[nr], n + 1, avail)]_vars

\* The handler found two bytes in the FIFO and room for one: it moved the
\* older one and left the newer one
C18_Witness ==
    /\ isrLog.nr = UART0
    /\ isrLog.serviced
    /\ isrLog.avail = 2
    /\ isrLog.free = 1
    /\ isrLog.drained = 1
    /\ Len(uart[UART0].rx_buffer.data) = 1
    /\ Len(rxfifo[UART0]) = 1
    /\ uart[UART0].rx_buffer.data[1] + 1 = rxfifo[UART0][1]

\* C19: in non-raw mode with a receive buffer and a data callback, for every
\* receive event (FIFO-full, timeout or overflow) the callback is invoked
\* exactly when the free space after the drain is at most rx_headroom.
C19_CallbackIffAtOrBelowHeadroom ==
    (/\ isrLog.nr # UART_NO
     /\ isrLog.serviced
     /\ ~isrLog.raw
     /\ isrLog.callback
     /\ isrLog.cap > 0
     /\ isrLog.usis \cap RxEvents # {})
    => (isrLog.called <=> isrLog.space <= isrLog.headroom)

\* The handler services a FIFO-empty event of port nr in this step
ServicesTxEmpty(nr) ==
    /\ Isr
    /\ "TXE" \in int_raw[nr] \cap int_ena[nr]
    /\ uartInstances[nr] # "null"
    /\ uart_isr_enabled(S, nr)
    /\ "RAW" \notin uart[nr].options

\* C20: in non-raw mode, on a FIFO-empty interrupt the handler moves the first
\* min(buffered bytes, FIFO free space as uart_txfifo_free gives it) bytes of
\* the transmit buffer to the FIFO; if the buffer and the FIFO are then both empty it disables the
\* FIFO-empty source and reports the event (sticky status, callback when one
\* is set); otherwise the source stays enabled and the FIFO-empty bit is in
\* neither the status given to the callback nor what is added to the sticky
\* status.
C20_TxEmptyRefillOrDisable ==
    [][\A nr \in Physical :
          ServicesTxEmpty(nr)
          => LET b == uart[nr].tx_buffer.data
                 free == uart_txfifo_free(S, nr)
                 n == IF Len(b) <= free THEN Len(b) ELSE free
             IN /\ uart'[nr].tx_buffer.data = SubSeq(b, n + 1, Len(b))
                /\ txcnt'[nr] = txcnt[nr] + n
                /\ nr = UART0 => fifoIn' = fifoIn \o SubSeq(b, 1, n)
                /\ isrLog'.nr = nr
                /\ IF Len(uart'[nr].tx_buffer.data) = 0 /\ txcnt'[nr] = 0
                   THEN /\ "TXE" \notin int_ena'[nr]
                        /\ "TXE" \in isrLog'.status
                        /\ "TXE" \in uart'[nr].status
                        /\ uart[nr].callback => isrLog'.called
                   ELSE /\ "TXE" \in int_ena'[nr]
                        /\ "TXE" \notin isrLog'.status
                        /\ uart'[nr].status = uart[nr].status \cup isrLog'.status
                        /\ isrLog'.status = {} => ~isrLog'.called]_vars

\* The handler found two bytes buffered and room for one in the FIFO: it moved
\* one, left one, kept the source enabled and did not report the event
C20_Witness ==
    /\ isrLog.nr = UART0
    /\ isrLog.serviced
    /\ isrLog.usis = {"TXE"}
    /\ isrLog.txAvail = 2
    /\ isrLog.txFree = 1
    /\ isrLog.count = 1
    /\ isrLog.txLeft = 1
    /\ isrLog.status = {}
    /\ ~isrLog.called
    /\ isrLog.callback
    /\ "TXE" \in int_ena[UART0]
    /\ "TXE" \notin uart[UART0].status
    /\ Len(uart[UART0].tx_buffer.data) = 1

(***************************************************************************)
(* SpecReg: open taken one statement at a time from line 743 on, close,    *)
(* detach and detach_all on both physical ports and the virtual port,      *)
(* against received bytes and the interrupt                                *)
(***************************************************************************)
RgFifo == 2
RgBuf == 1
RgTotal == 2

RegEnv ==
    [txFifoSize |-> LcTxFifo, rxFifoSize |-> RgFifo,
     cfgs |-> { Cfg(UART0, "UART_FULL", {}, 1, RgBuf, 0, 115200),
                Cfg(UART1, "UART_TX_ONLY", {}, 2, 0, 0, 115200),
                Cfg(UART2, "UART_FULL", {}, 1, RgBuf, 0, 115200) },
     allocs |-> {TRUE, FALSE}, sizes |-> {}, maxTx |-> 0, maxRx |-> RgTotal,
     hwPorts |-> {UART0}, ioPorts |-> {UART0, UART1}, headrooms |-> {},
     hist |-> {}, steps |-> {"init_ex"}]

InitReg == \E b \in BootEna : InitBoot(RegEnv, [n \in Physical |-> b])

NextReg ==
    \/ OpenCall
    \/ OpenInstall
    \/ OpenArm
    \/ OpenNotify
    \/ Uninit
    \/ Detach
    \/ DetachAll
    \/ HwRxByte
    \/ HwRxFull
    \/ HwRxTimeout
    \/ Isr

SpecReg == InitReg /\ [][NextReg]_vars

(***************************************************************************)
(* SpecCrit: the operations with a critical section, open and close, on    *)
(* all three ports, against received bytes and the interrupt               *)
(***************************************************************************)
CsFifo == 2
CsBuf == 1
CsTotal == 2

CritEnv ==
    [txFifoSize |-> LcTxFifo, rxFifoSize |-> CsFifo,
     cfgs |-> { Cfg(UART0, m, {}, 1, CsBuf, CsBuf, 115200) : m \in Modes }
              \cup { Cfg(UART1, "UART_TX_ONLY", {}, 2, 0, 0, 115200),
                     Cfg(UART2, "UART_FULL", {}, 1, CsBuf, 0, 115200) },
     allocs |-> {TRUE}, sizes |-> {}, maxTx |-> 0, maxRx |-> CsTotal,
     hwPorts |-> {UART0}, ioPorts |-> Ports, headrooms |-> {},
     hist |-> {}]

InitCrit == InitWith(CritEnv)

NextCrit ==
    \/ InitEx
    \/ Uninit
    \/ RxAvailable
    \/ TxFree
    \/ GetStatus
    \/ Flush
    \/ Detach
    \/ HwRxByte
    \/ HwRxFull
    \/ HwRxTimeout
    \/ Isr

SpecCrit == InitCrit /\ [][NextCrit]_vars

(***************************************************************************)
(* SpecCb: smg_uart_set_callback taken one statement at a time on the open *)
(* UART0, against received bytes, reads and the interrupt                  *)
(***************************************************************************)
CbFifo == 2
CbBuf == 2
CbLen == 2
CbTotal == 3

CbEnv ==
    [txFifoSize |-> LcTxFifo, rxFifoSize |-> CbFifo,
     cfgs |-> { Cfg(UART0, "UART_FULL", {}, 1, CbBuf, 0, 115200) },
     allocs |-> {TRUE}, sizes |-> {CbLen}, maxTx |-> 0, maxRx |-> CbTotal,
     hwPorts |-> {UART0}, ioPorts |-> {UART0}, headrooms |-> {},
     hist |-> {"isr", "at"}]

InitCb == InitWith(CbEnv)

NextCb ==
    \/ InitEx
    \/ SetCbCall
    \/ SetCbClear
    \/ SetCbParam
    \/ SetCbFn
    \/ HwRxByte
    \/ HwRxFull
    \/ HwRxTimeout
    \/ Isr
    \/ ReadCall
    \/ ReadBuf
    \/ ReadFifo
    \/ ReadArm

SpecCb == InitCb /\ [][NextCb]_vars

(***************************************************************************)
(* SpecIntr: smg_uart_intr_config on UART0 and on the virtual UART2, in     *)
(* every mode, with and without a receive buffer; the FIFO has the depth   *)
(* of the hardware, so thresholds are the register values                  *)
(***************************************************************************)
IcBuf == 1

IntrEnv ==
    [txFifoSize |-> LcTxFifo, rxFifoSize |-> HW_RX_FIFO_SIZE,
     cfgs |-> { Cfg(nr, m, {}, 1, b, 0, 115200) :
                  nr \in {UART0, UART2}, m \in Modes, b \in {0, IcBuf} },
     allocs |-> {TRUE}, sizes |-> {}, maxTx |-> 0, maxRx |-> 0,
     hwPorts |-> {}, ioPorts |-> {UART0, UART2}, headrooms |-> {},
     hist |-> {"call"}]

InitIntr == InitWith(IntrEnv)

NextIntr ==
    \/ InitEx
    \/ IntrConfig

SpecIntr == InitIntr /\ [][NextIntr]_vars

\* C21: on a physical port with a transmit buffer, whenever no smg_uart_write
\* or smg_uart_flush is in progress (the handler is atomic here), a non-empty
\* transmit buffer implies that the FIFO-empty interrupt source is enabled.
C21_BufferedImpliesTxEmptyArmed ==
    pc = "idle"
    => \A nr \in Physical :
          (/\ uart[nr].st = "live"
           /\ HasBuf(uart[nr].tx_buffer)
           /\ ~isEmpty(uart[nr].tx_buffer))
          => "TXE" \in int_ena[nr]

\* C22: on a physical port with a receive buffer, as long as the hardware has
\* dropped no byte, the bytes returned by successive smg_uart_read calls are,
\* in order, the first bytes that arrived since the port was opened (arrivals
\* are numbered 1, 2, ...).
C22_ReadsArePrefixOfArrivals ==
    ~readLog.lost
    => \A i \in 1..Len(readLog.out) : readLog.out[i] = readLog.base + i

\* C23: a smg_uart_wait_tx_empty in progress on a transmit-enabled physical
\* port eventually returns, with the transmit buffer and the transmit FIFO
\* both empty.
C23_WaitTxEmptyReturns ==
    (pc \in {"wt_buf", "wt_fifo"})
    ~> (/\ pc = "idle"
        /\ ret.op = "wait_tx_empty"
        /\ isEmpty(uart[ret.nr].tx_buffer)
        /\ txcnt[ret.nr] = 0)

\* The handler services an event of the raw-callback port nr in this step
ServicesRaw(nr) ==
    /\ Isr
    /\ int_raw[nr] \cap int_ena[nr] # {}
    /\ uartInstances[nr] # "null"
    /\ uart_isr_enabled(S, nr)
    /\ "RAW" \in uart[nr].options

\* C24: in raw-callback mode a handler run leaves both FIFOs, both buffers and
\* the interrupt enables as they are, adds the whole interrupt status to the
\* sticky status, passes that same status to the callback exactly when one is
\* registered, and clears the serviced status bits.
C24_RawModePassesStatusThrough ==
    [][\A nr \in Physical :
          ServicesRaw(nr)
          => LET usis == int_raw[nr] \cap int_ena[nr]
             IN /\ rxfifo'[nr] = rxfifo[nr]
                /\ txcnt'[nr] = txcnt[nr]
                /\ uart'[nr].rx_buffer = uart[nr].rx_buffer
                /\ uart'[nr].tx_buffer = uart[nr].tx_buffer
                /\ int_ena'[nr] = int_ena[nr]
                /\ uart'[nr].status = uart[nr].status \cup usis
                /\ int_raw'[nr] = int_raw[nr] \ usis
                /\ isrLog'.nr = nr
                   => /\ isrLog'.status = usis
                      /\ isrLog'.called <=> uart[nr].callback]_vars

\* A raw-mode run for FIFO-full and FIFO-empty together, with a byte waiting
\* in each buffer's way: the callback got both bits and nothing moved
C24_Witness ==
    /\ isrLog.nr = UART0
    /\ isrLog.serviced
    /\ isrLog.raw
    /\ isrLog.usis = {"FULL", "TXE"}
    /\ isrLog.status = {"FULL", "TXE"}
    /\ isrLog.called
    /\ isrLog.drained = 0
    /\ isrLog.count = 0
    /\ isrLog.txAvail = 1
    /\ Len(rxfifo[UART0]) = 2
    /\ Len(uart[UART0].tx_buffer.data) = 1
    /\ Len(uart[UART0].rx_buffer.data) = 0
    /\ {"FULL", "TXE"} \subseteq uart[UART0].status
    /\ {"FULL", "TXE"} \subseteq int_ena[UART0]

\* C25: the sticky status of an open instance loses a bit only in a
\* smg_uart_get_status step, and a handler run adds to it only bits of the
\* interrupt status it services.
C25_StickyStatusOnlyGrows ==
    [][\A nr \in Physical :
          (uart[nr].st = "live" /\ uart'[nr].st = "live")
          => /\ ~(uart[nr].status \subseteq uart'[nr].status) => GetStatus
             /\ Isr => uart'[nr].status
                          \subseteq uart[nr].status \cup (int_raw[nr] \cap int_ena[nr])]_vars

\* The one byte received was taken by a read that returned before the one
\* write was made: the timeout flag of the first and the FIFO-empty flag of
\* the second are both held
C25_Witness ==
    /\ uart[UART0].st = "live"
    /\ uart[UART0].status = {"TOUT", "TXE"}
    /\ pc = "idle"
    /\ ret.op = "write"
    /\ ret.val = 1
    /\ nAccepted = 1
    /\ rxSeq = 1
    /\ rxfifo[UART0] = <<>>
    /\ isEmpty(uart[UART0].rx_buffer)

\* C26: when smg_uart_swap moves UART0 from the default pins to the alternate
\* pins, every restore of an old pin comes before every select of a new pin,
\* and every select of a new pin comes before the write that sets UART_SWAP0
C26_SwapRestoresSelectsThenSetsBit ==
    (/\ Len(pinLog) > 0
     /\ pinLog[Len(pinLog)].op = "swap"
     /\ DefaultPins(uart[UART0], pinLog[Len(pinLog)].pre)
     /\ swap0)
    => LET ws == pinLog[Len(pinLog)].writes
       IN \A i, j \in DOMAIN ws :
            /\ (ws[i].w = "restore" /\ ws[j].w = "select") => i < j
            /\ (ws[i].w = "select" /\ ws[j].w = "swap0") => i < j

\* C27: when smg_uart_set_pins on UART0 returns true, tx_pin is the requested
\* transmit pin if the transmitter is enabled and rx_pin is the requested
\* receive pin if the receiver is enabled, in every mode and from every
\* starting assignment
C27_SetPinsTrueMatchesRequest ==
    (/\ Len(pinLog) > 0
     /\ pinLog[Len(pinLog)].op = "set_pins"
     /\ pinLog[Len(pinLog)].val = TRUE)
    => /\ smg_uart_tx_enabled(uart[UART0])
            => uart[UART0].tx_pin = pinLog[Len(pinLog)].tx
       /\ smg_uart_rx_enabled(uart[UART0])
            => uart[UART0].rx_pin = pinLog[Len(pinLog)].rx

\* C28: a successful smg_uart_init_ex installs the instance in uartInstances
\* before smg_uart_start_isr arms the port and notifies after both; and in
\* every state reached by open, close, detach and detach_all, with the
\* interrupt running in between, a physical port has its isrMask bit set
\* only while uartInstances holds its live instance
C28_ArmedOnlyWhenInstalled ==
    /\ \A nr \in Physical :
         nr \in isrMask => (uartInstances[nr] = "ptr" /\ uart[nr].st = "live")
    /\ pc = "o_install" => op.nr \notin isrMask
    /\ pc = "o_arm" => (uartInstances[op.nr] = "ptr" /\ op.nr \notin isrMask)
    /\ pc = "o_notify" => /\ uartInstances[op.nr] = "ptr"
                          /\ is_physical(op.nr) => op.nr \in isrMask

\* UART0 is about to send its after-open notification, installed and armed,
\* while the open UART1 has been detached
C28_Witness ==
    /\ pc = "o_notify"
    /\ op.nr = UART0
    /\ uartInstances[UART0] = "ptr"
    /\ UART0 \in isrMask
    /\ uart[UART1].st = "live"
    /\ uartInstances[UART1] = "ptr"
    /\ UART1 \notin isrMask

\* C29: after smg_uart_rx_available, smg_uart_tx_free, smg_uart_get_status,
\* smg_uart_flush and smg_uart_detach return, the UART interrupt is enabled
\* exactly when isrMask is non-zero; and no sequence of these, open and close
\* leaves the UART interrupt masked while a port is armed
C29_CriticalSectionsReleased ==
    /\ ret.op \in {"rx_available", "tx_free", "get_status", "flush", "detach"}
         => (intrEnabled <=> isrMask # {})
    /\ isrMask # {} => intrEnabled

\* UART0 has just been detached while open; UART1 is still armed and the
\* UART interrupt is enabled
C29_Witness ==
    /\ ret.op = "detach"
    /\ ret.nr = UART0
    /\ uart[UART0].st = "live"
    /\ isrMask = {UART1}
    /\ intrEnabled

\* C30: whenever the handler invokes the data callback, the function it
\* calls and the param stored at that moment belong to the same registration,
\* wherever in smg_uart_set_callback the interrupt arrives; between the
\* stores of the call it invokes nothing
C30_CallbackPairedWithItsParam ==
    /\ isrLog.called => (isrLog.fn # 0 /\ isrLog.param = isrLog.fn)
    /\ isrLog.at \in {"sc_param", "sc_fn"} => ~isrLog.called

\* The handler ran between the store of the new param and the store of the
\* new callback, with a status to report, and invoked nothing; the call then
\* completed the registration of function 2 over function 1
C30_Witness ==
    /\ isrLog.at = "sc_fn"
    /\ isrLog.serviced
    /\ isrLog.status # {}
    /\ ~isrLog.called
    /\ isrLog.param = 2
    /\ pc = "idle"
    /\ ret.op = "set_callback"
    /\ uart[UART0].fn = 2
    /\ uart[UART0].param = 2

\* C31 as stated: after smg_uart_intr_config succeeds, for every configuration
\* and every port, the receive FIFO-full threshold in UART_CONF1 is within
\* 1..127 (1 for a requested 0), and the receive-timeout and transmit-empty
\* thresholds are the caller's values clamped to 127
C31_ThresholdsAreCallersClamped ==
    (ret.op = "intr_config" /\ ret.val = TRUE)
    => LET c == conf1[get_physical(S, ret.nr)]
           f == ret.call.rxfifo_full_thresh
           t == ret.call.rx_timeout_thresh
           e == ret.call.txfifo_empty_intr_thresh
       IN /\ c.rxfifo_full_thrhd \in 1..127
          /\ f = 0 => c.rxfifo_full_thrhd = 1
          /\ c.rx_tout_thrhd = (IF t > 127 THEN 127 ELSE t)
          /\ c.txfifo_empty_thrhd = (IF e > 127 THEN 127 ELSE e)

\* C31 amended: each threshold is programmed from the caller's value only for
\* a direction the physical port has enabled, and the receive FIFO-full
\* threshold only when that port has no receive buffer; with a receive buffer
\* it is RX_FIFO_FULL_THRESHOLD, and for a disabled direction the fields are 0
C31_ThresholdsClampedPerMode ==
    (ret.op = "intr_config" /\ ret.val = TRUE)
    => LET p == get_physical(S, ret.nr)
           c == conf1[p]
           f == ret.call.rxfifo_full_thresh
           t == ret.call.rx_timeout_thresh
           e == ret.call.txfifo_empty_intr_thresh
       IN /\ uart[p].mode # "UART_TX_ONLY"
               => /\ c.rxfifo_full_thrhd \in 1..127
                  /\ c.rx_tout_thrhd = (IF t > 127 THEN 127 ELSE t)
                  /\ c.rx_tout_en
                  /\ uart[p].rx_buffer.cap = 0
                        => c.rxfifo_full_thrhd =
                              (IF f = 0 THEN 1 ELSE IF f > 127 THEN 127 ELSE f)
                  /\ uart[p].rx_buffer.cap > 0
                        => c.rxfifo_full_thrhd = 120
          /\ uart[p].mode = "UART_TX_ONLY"
               => (c.rxfifo_full_thrhd = 0 /\ c.rx_tout_thrhd = 0 /\ ~c.rx_tout_en)
          /\ uart[p].mode # "UART_RX_ONLY"
               => c.txfifo_empty_thrhd = (IF e > 127 THEN 127 ELSE e)
          /\ uart[p].mode = "UART_RX_ONLY" => c.txfifo_empty_thrhd = 0

\* UART0 is open in full mode without a receive buffer; a configuration with
\* a zero FIFO-full threshold and over-range timeout and transmit-empty
\* thresholds has been programmed as 1, 127 and 127
C31_Witness ==
    /\ ret.op = "intr_config"
    /\ ret.val = TRUE
    /\ ret.nr = UART0
    /\ uart[UART0].mode = "UART_FULL"
    /\ uart[UART0].rx_buffer.cap = 0
    /\ ret.call.rxfifo_full_thresh = 0
    /\ ret.call.rx_timeout_thresh = 128
    /\ ret.call.txfifo_empty_intr_thresh = 128
    /\ conf1[UART0].rxfifo_full_thrhd = 1
    /\ conf1[UART0].rx_tout_thrhd = 127
    /\ conf1[UART0].txfifo_empty_thrhd = 127

====
